---- MODULE Spec2Model ----
(***************************************************************************)
(* A model of metric-im/administrate: the multi-site reverse proxy with    *)
(* its process supervisor (src/multisite.mjs, class MultiSite and class    *)
(* Site) and the certificate manager (src/unnamed/part_003, class          *)
(* Certify).  The controller is one Node.js event loop: every action below *)
(* is one run-to-completion step of it (a handler, a timer callback, the   *)
(* continuation after an await) or one event of the environment (a child   *)
(* process exiting, the clock advancing).                                  *)
(***************************************************************************)
EXTENDS Integers, Sequences, FiniteSets, TLC

(***************************************************************************)
(* Bounds of the model.                                                    *)
(***************************************************************************)
MaxInst == 2        \* Site objects constructed in one run
MaxReq == 1         \* requests open at the same time
MaxTasks == 3       \* renewCert invocations in one run
MaxTicks == 4       \* advances of the certificate manager's clock
TickLen == 30       \* seconds per advance of that clock
StartDay == 100     \* the day (a count of days) on which the run starts
MaxBody == 3        \* bytes in the body a backend serves
MaxLogCalls == 13   \* upstream failures passed to the error-log limiter

(***************************************************************************)
(* Program constants.  Timer delays are in seconds.                        *)
(***************************************************************************)
DefaultSpawnPort == 53874     \* multisite.mjs:18
CleanupDeadline == 15         \* multisite.mjs:82   (15000 ms)
KillDeadline == 5             \* multisite.mjs:93   (5000 ms)
RedirectDelay == 2            \* multisite.mjs:332  (2000 ms)
MAX_AGE == 75                 \* part_003:7        (days)
MAX_WAIT_TIME == 60           \* part_003:8        (seconds)
RenewalTimeout == 120         \* part_003:129      (120000 ms)
DaySeconds == 86400           \* part_003:86       (the unit 'days' of moment)

(***************************************************************************)
(* Host names and Site.WashName.  The regular expression of WashName       *)
(* matches a bare IPv4 literal; toLowerCase folds the case.                *)
(***************************************************************************)
Hosts == {"A.COM", "10.0.0.1"}

IsIPv4Literal(h) == h \in {"10.0.0.1"}

ToLowerCase(h) == IF h = "A.COM" THEN "a.com" ELSE h

WashName(h) == IF h = "" \/ IsIPv4Literal(h) THEN "" ELSE ToLowerCase(h)

Domains == {WashName(h) : h \in Hosts}

(***************************************************************************)
(* Request URLs and the binary-suffix test of the router.                  *)
(***************************************************************************)
Urls == {"/", "/logo.png"}

IsBinaryRequest(url) == url \in {"/logo.png"}

(***************************************************************************)
(* Status codes a backend may answer with, and the network failures of an  *)
(* upstream call.                                                          *)
(***************************************************************************)
Statuses == {200, 404, 502}

NetErrors == {"ECONNREFUSED", "ETIMEDOUT"}

(***************************************************************************)
(* process.env.SITE_ENV: unset, not valid JSON, or a JSON document keyed   *)
(* by domain id.  SiteEnvDoc is the document used when it is valid JSON:   *)
(* it overrides PORT for a.com.  0 stands for "no PORT key".               *)
(***************************************************************************)
(***************************************************************************)
(* Header sets, as maps from the (lower-case) header name to its value.    *)
(* A name that is not in the set maps to Absent; a key that an object      *)
(* literal sets to undefined maps to Undefined.                            *)
(***************************************************************************)
HeaderNames == {"host", "content-length", "content-type",
                "transfer-encoding", "content-encoding"}

Absent == ""

Undefined == "undefined"

NoHeaders == [n \in HeaderNames |-> Absent]

\* req.headers of a request without a body, and of one with a body.
GetHeaders(h) == [NoHeaders EXCEPT !["host"] = h]

PostHeaders(h) == [NoHeaders EXCEPT !["host"] = h, !["content-length"] = "17",
                                   !["content-type"] = "application/json"]

\* response.headers of the backend: a plain answer, and a chunked, compressed one.
PlainResponseHeaders ==
    [NoHeaders EXCEPT !["content-type"] = "text/html", !["content-length"] = "5"]

ChunkedResponseHeaders ==
    [NoHeaders EXCEPT !["content-type"] = "text/html",
                      !["transfer-encoding"] = "chunked",
                      !["content-encoding"] = "gzip"]

\* A spread of req.headers with nothing overridden.
HeadersToForwardAll(h) == h

\* { ...req.headers, 'content-length': undefined }
HeadersToForward(h) == [h EXCEPT !["content-length"] = Undefined]

\* A copy of response.headers with nothing deleted.
CleanHeadersTextKept(h) == h

\* cleanHeaders of the binary path, and of the textual path.
CleanHeadersBinary(h) ==
    [h EXCEPT !["transfer-encoding"] = Absent, !["content-encoding"] = Absent]

CleanHeadersText(h) ==
    [h EXCEPT !["transfer-encoding"] = Absent, !["content-encoding"] = Absent]

(***************************************************************************)
(* Bodies.  A body is a sequence of bytes; 65 stands for the bytes below   *)
(* 128 and 233 for those from 128 up, which are not UTF-8 on their own.    *)
(* The backend sends the file as it is or under a content coding.  The     *)
(* coding is modelled by run-length coding: lossless and in order, with an *)
(* output whose length differs from its input's, as gzip's does.           *)
(***************************************************************************)
Bytes == {65, 233}

Files == UNION {[1..n -> Bytes] : n \in 0..MaxBody}

Min(a, b) == IF a <= b THEN a ELSE b

Take(b, n) == SubSeq(b, 1, Min(n, Len(b)))

RunLen(b) ==
    CHOOSE n \in 1..Len(b) :
        /\ \A i \in 1..n : b[i] = b[1]
        /\ n = Len(b) \/ b[n + 1] # b[1]

RECURSIVE Gzip(_)
Gzip(b) ==
    IF b = <<>> THEN <<>>
    ELSE <<RunLen(b), b[1]>> \o Gzip(SubSeq(b, RunLen(b) + 1, Len(b)))

RECURSIVE Gunzip(_)
Gunzip(w) ==
    IF Len(w) < 2 THEN <<>>
    ELSE [i \in 1..w[1] |-> w[2]] \o Gunzip(SubSeq(w, 3, Len(w)))

\* responseType 'text': the bytes are decoded as UTF-8 into code points, a
\* byte that is no UTF-8 becoming U+FFFD; res.send encodes the string again.
DecodeText(b) == [i \in 1..Len(b) |-> IF b[i] >= 128 THEN 65533 ELSE b[i]]

RECURSIVE EncodeText(_)
EncodeText(t) ==
    IF t = <<>> THEN <<>>
    ELSE (IF t[1] = 65533 THEN <<239, 191, 189>> ELSE <<t[1]>>) \o EncodeText(Tail(t))

\* What a backend answers: the file, the content coding it is sent under and
\* whether the length of the body is announced or the body is chunked.
Codings == {"identity", "gzip"}

Framings == {"length", "chunked"}

BackendResponses == [file : Files, coding : Codings, framing : Framings]

\* The body on the wire, and the headers that go with it.
WireBody(resp) == IF resp.coding = "gzip" THEN Gzip(resp.file) ELSE resp.file

WireHeaders(resp) ==
    [NoHeaders EXCEPT
        !["content-type"] = "image/png",
        !["content-encoding"] = IF resp.coding = "gzip" THEN "gzip" ELSE Absent,
        !["content-length"] = IF resp.framing = "length"
                              THEN ToString(Len(WireBody(resp))) ELSE Absent,
        !["transfer-encoding"] = IF resp.framing = "chunked" THEN "chunked" ELSE Absent]

\* The axios call passes no `decompress`, so axios decodes a body that
\* has a content-encoding before it hands over response.data.
ResponseData(uh, wire) == IF uh["content-encoding"] = "gzip" THEN Gunzip(wire) ELSE wire

\* The number a Content-Length header announces.
ParseLength(v) == CHOOSE n \in 0..(2 * MaxBody + 2) : ToString(n) = v

\* The body the client reads: with a Content-Length among the headers set on
\* the response it reads that many bytes of what is written, and no more.
ClientReads(out, written) ==
    IF out["content-length"] # Absent
    THEN Take(written, ParseLength(out["content-length"]))
    ELSE written

\* response.data.pipe(res): the bytes of response.data are written as they are.
PipeBody(uh, wire) == ResponseData(uh, wire)

\* send(response.data) with responseType 'text': the string is written in
\* UTF-8, and send sets the Content-Length of what it writes.
SendBody(uh, wire) == EncodeText(DecodeText(ResponseData(uh, wire)))

SiteEnvKinds == {"unset", "invalid", "json"}

SiteEnvDoc == [d \in Domains |-> IF d = "a.com" THEN DefaultSpawnPort + 1 ELSE 0]

VARIABLES
    \* ---- MultiSite ----
    attached,               \* MultiSite.attach has run
    siteEnv,                \* process.env.SITE_ENV
    sites,                  \* this.sites: domain -> index into insts, 0 = no entry
    insts,                  \* every Site object constructed, in order
    _spawnPort,             \* this._spawnPort
    usedPorts,              \* this.usedPorts
    healthCheckIntervals,   \* this.healthCheckIntervals: name -> interval, 0 = none
    intervals,              \* setInterval timers not yet cleared (by Site index)
    probing,                \* Site indexes with a liveness probe in flight
    isShuttingDown,         \* this.isShuttingDown
    cleanupTimeout,         \* the 15 s timer of cleanup: seconds left, -1 = not armed
    waits,                  \* per Site index: the promise of cleanup and its 5 s timer
    signals,                \* termination signals received so far (0, 1 or 2)
    ctl,                    \* "running" or "exited": the controller process
    exitCode,               \* the code it exited with, -1 while running
    exitBy,                 \* which call ended it: "none", "cleanup", "signal",
                            \* "deadline" or "uncaught"
    reqs,                   \* the open requests of the router
    errorLogTracker,        \* this.errorLogTracker: key -> entry, NoLogEntry = none
    logNow,                 \* Date.now() of the error-log limiter, in seconds
    logged,                 \* what the last shouldLogError call returned
    logCalls,               \* shouldLogError calls made so far
    prevLogAt,              \* when a call before the last one returned true
                            \* most recently, -1 = never
    windowStart,            \* first failure of the current window, -1 = none
    windowCount,            \* failures counted in the current window
    \* ---- Certify ----
    now,                    \* the clock, in seconds
    contactEmail,           \* this.contactEmail is set
    store,                  \* per domain: the ssl section of its persisted document
    blobs,                  \* per domain: the key/cert files in its directory
    configPath,             \* the path the shared Config object points at
    pending,                \* this.pending: domain -> timestamp, -1 = no entry
    challenges,             \* this.challenges: the tokens present
    tasks,                  \* every renewCert call made, in order
    sni                     \* the answer of the last SNI callback / getSiteKeys call

siteVars == <<attached, siteEnv, sites, insts, _spawnPort, usedPorts,
              healthCheckIntervals, intervals, probing, isShuttingDown,
              cleanupTimeout, waits, signals, ctl, exitCode, exitBy,
              reqs, errorLogTracker, logNow, logged, logCalls, prevLogAt,
              windowStart, windowCount>>

logVars == <<errorLogTracker, logNow, logged, logCalls, prevLogAt,
             windowStart, windowCount>>

certVars == <<now, contactEmail, store, blobs, configPath, pending,
              challenges, tasks, sni>>

vars == <<siteVars, certVars>>

(***************************************************************************)
(* Site objects.  A Site is a record                                       *)
(*   name    this.name                                                     *)
(*   PORT    this.options.env.PORT, after the constructor merged SITE_ENV  *)
(*   proc    this.proc is not null                                         *)
(*   killed  this.proc.killed: kill() delivered a signal to the child      *)
(*   os      the child itself: "running"; "failed" (the launch failed and  *)
(*           the 'error' event is not delivered yet); "exited" ('exit'     *)
(*           delivered, handle closed, 'close' not yet delivered);         *)
(*           "closed" ('close' or 'error' delivered)                       *)
(*   sigs    the signals the child has been sent                           *)
(***************************************************************************)
InstIds == 1..MaxInst

\* A constructor that applied the entry of the domain whatever the state of
\* SITE_ENV: the variant the try/catch around JSON.parse rules out.
MergedPortAlways(name, port) ==
    IF SiteEnvDoc[name] # 0 THEN SiteEnvDoc[name] ELSE port

\* Site constructor: Object.assign(this.options.env, envars[this.name] || {})
\* inside a try whose catch swallows the parse error of an unset or invalid
\* SITE_ENV.
MergedPort(name, port) ==
    IF siteEnv = "json" /\ SiteEnvDoc[name] # 0 THEN SiteEnvDoc[name] ELSE port

\* new Site(name, options) followed by spawn(); launched says whether
\* child_process.spawn produced a running child.
NewSite(name, port, launched) ==
    [name |-> name, PORT |-> MergedPort(name, port), proc |-> TRUE,
     killed |-> FALSE, os |-> IF launched THEN "running" ELSE "failed",
     sigs |-> {}]

\* ChildProcess.kill(sig): the signal is delivered, and killed set, only
\* while the child's handle is open; otherwise kill returns false.
Kill(s, sig) ==
    IF s.os = "running"
    THEN [s EXCEPT !.killed = TRUE, !.sigs = @ \cup {sig}]
    ELSE s

\* Object.values(this.sites)
Registered == {sites[d] : d \in Domains} \ {0}

\* The 'exit' handler installed by setupCleanup: SIGKILL to every Site of the
\* registry with a process that kill() has not signalled yet.
ExitHandler(I) ==
    [i \in DOMAIN I |->
        IF i \in Registered /\ I[i].proc /\ ~I[i].killed
        THEN Kill(I[i], "SIGKILL") ELSE I[i]]

NoWait == [st |-> "none", timer |-> -1]

(***************************************************************************)
(* The error-log limiter.  Times are in seconds: the 300000 ms window and  *)
(* the 60000 ms gap of the source are 300 and 60.                          *)
(***************************************************************************)
LogWindow == 300
LogMinGap == 60
LogEvery == 10

\* `${clientIP}:${target}`: one client asking for one target.
LogKeys == {"10.0.0.9:http://127.0.0.1:53874/"}

\* Seconds between one failure of the pair and the next.
LogSteps == {0, 1, 50, 250}

\* errorLogTracker.get(key) of a key that is not in the map.
NoLogEntry == [count |-> 0, firstSeen |-> -1, lastLogged |-> -1]

\* A limiter without the branch that starts a new window.
shouldLogErrorNoReset(e, t) ==
    IF e = NoLogEntry
    THEN [entry |-> [count |-> 1, firstSeen |-> t, lastLogged |-> t], ret |-> TRUE]
    ELSE LET c == e.count + 1 IN
         IF c = 1 \/ (c % LogEvery = 0 /\ t - e.lastLogged > LogMinGap)
         THEN [entry |-> [e EXCEPT !.count = c, !.lastLogged = t], ret |-> TRUE]
         ELSE [entry |-> [e EXCEPT !.count = c], ret |-> FALSE]

\* shouldLogError(target, clientIP) at time t, e being the entry of the key:
\* the entry it leaves in the map and the value it returns.
shouldLogError(e, t) ==
    IF e = NoLogEntry
    THEN [entry |-> [count |-> 1, firstSeen |-> t, lastLogged |-> t], ret |-> TRUE]
    ELSE LET c == e.count + 1 IN
         IF t - e.firstSeen > LogWindow
         THEN [entry |-> [count |-> 1, firstSeen |-> t, lastLogged |-> t],
               ret |-> TRUE]
         ELSE IF c = 1 \/ (c % LogEvery = 0 /\ t - e.lastLogged > LogMinGap)
              THEN [entry |-> [e EXCEPT !.count = c, !.lastLogged = t], ret |-> TRUE]
              ELSE [entry |-> [e EXCEPT !.count = c], ret |-> FALSE]

FreeReq == [st |-> "free", host |-> "", url |-> "", port |-> 0, timer |-> -1,
            up |-> "none", upStatus |-> 0, status |-> 0, kind |-> "none",
            headers |-> NoHeaders, fwd |-> NoHeaders,
            upHeaders |-> NoHeaders, out |-> NoHeaders, body |-> "",
            upBody |-> <<>>, outBody |-> <<>>]

InitSite ==
    /\ attached = FALSE
    /\ siteEnv \in SiteEnvKinds
    /\ sites = [d \in Domains |-> 0]
    /\ insts = <<>>
    /\ _spawnPort = DefaultSpawnPort
    /\ usedPorts = {}
    /\ healthCheckIntervals = [d \in Domains |-> 0]
    /\ intervals = {}
    /\ probing = {}
    /\ isShuttingDown = FALSE
    /\ cleanupTimeout = -1
    /\ waits = [i \in InstIds |-> NoWait]
    /\ signals = 0
    /\ ctl = "running"
    /\ exitCode = -1
    /\ exitBy = "none"
    /\ reqs = [r \in 1..MaxReq |-> FreeReq]
    /\ errorLogTracker = [k \in LogKeys |-> NoLogEntry]
    /\ logNow = 0
    /\ logged = FALSE
    /\ logCalls = 0
    /\ prevLogAt = -1
    /\ windowStart = -1
    /\ windowCount = 0

(***************************************************************************)
(* MultiSite.attach: the sites declared in ./sites are spawned in          *)
(* directory order, each with the next port of the allocator.              *)
(***************************************************************************)
DeclaredLists == {<<>>, <<"A.COM">>}

Attach ==
    /\ ctl = "running"
    /\ ~attached
    /\ \E decl \in DeclaredLists, launched \in [1..1 -> BOOLEAN] :
        /\ Len(decl) <= MaxInst
        /\ insts' = [k \in 1..Len(decl) |->
                        NewSite(WashName(decl[k]), _spawnPort + k - 1, launched[k])]
        /\ sites' = [d \in Domains |->
                        IF \E k \in 1..Len(decl) : WashName(decl[k]) = d
                        THEN CHOOSE k \in 1..Len(decl) :
                                /\ WashName(decl[k]) = d
                                /\ \A j \in 1..Len(decl) : WashName(decl[j]) = d => j <= k
                        ELSE 0]
        /\ _spawnPort' = _spawnPort + Len(decl)
        /\ usedPorts' = usedPorts \cup {_spawnPort + k - 1 : k \in 1..Len(decl)}
    /\ attached' = TRUE
    /\ UNCHANGED <<siteEnv, healthCheckIntervals, intervals, probing, isShuttingDown,
                   cleanupTimeout, waits, signals, ctl, exitCode, exitBy, reqs>>
    /\ UNCHANGED <<certVars, logVars>>

(***************************************************************************)
(* Events of a child process.                                              *)
(***************************************************************************)
\* process.exit(code): the 'exit' handler runs, then the controller is gone.
ProcessExit(code, by, I) ==
    /\ insts' = ExitHandler(I)
    /\ ctl' = "exited"
    /\ exitCode' = code
    /\ exitBy' = by

\* A gracefulShutdown that reports failure after a completed cleanup.
AfterResolveExitOne(W, I, ct) ==
    /\ waits' = W
    /\ IF \A i \in InstIds : W[i].st # "waiting"
       THEN /\ intervals' = intervals \ {healthCheckIntervals[d] : d \in Domains}
            /\ healthCheckIntervals' = [d \in Domains |-> 0]
            /\ cleanupTimeout' = -1
            /\ ProcessExit(1, "cleanup", I)
       ELSE /\ insts' = I
            /\ cleanupTimeout' = ct
            /\ UNCHANGED <<intervals, healthCheckIntervals, ctl, exitCode, exitBy>>

\* After the promise of a Site has settled in cleanup: when no promise is
\* left waiting, Promise.all resolves, cleanup clears the intervals and its own
\* timer and gracefulShutdown calls process.exit(0); ct is the value of the
\* cleanup timer otherwise.
AfterResolve(W, I, ct) ==
    /\ waits' = W
    /\ IF \A i \in InstIds : W[i].st # "waiting"
       THEN /\ intervals' = intervals \ {healthCheckIntervals[d] : d \in Domains}
            /\ healthCheckIntervals' = [d \in Domains |-> 0]
            /\ cleanupTimeout' = -1
            /\ ProcessExit(0, "cleanup", I)
       ELSE /\ insts' = I
            /\ cleanupTimeout' = ct
            /\ UNCHANGED <<intervals, healthCheckIntervals, ctl, exitCode, exitBy>>

Resolved == [st |-> "resolved", timer |-> -1]

\* The child exits: Node emits 'exit'.  The listener cleanup attached clears
\* the 5 s timer of the Site and resolves its promise.
ChildExit(i) ==
    /\ ctl = "running"
    /\ i \in DOMAIN insts
    /\ insts[i].os = "running"
    /\ LET I == [insts EXCEPT ![i].os = "exited"] IN
       IF waits[i].st = "waiting"
       THEN AfterResolve([waits EXCEPT ![i] = Resolved], I, cleanupTimeout)
       ELSE /\ insts' = I
            /\ UNCHANGED <<waits, cleanupTimeout, intervals, healthCheckIntervals,
                           ctl, exitCode, exitBy>>
    /\ UNCHANGED <<attached, siteEnv, sites, _spawnPort, usedPorts, probing,
                   isShuttingDown, signals, reqs>>
    /\ UNCHANGED <<certVars, logVars>>

\* 'close' handler of Site.spawn: this.proc = null.  The handler looks for
\* this.healthCheckIntervals on the Site, where no such property exists, so no
\* timer is cleared.
ChildClose(i) ==
    /\ ctl = "running"
    /\ i \in DOMAIN insts
    /\ insts[i].os = "exited"
    /\ insts' = [insts EXCEPT ![i].os = "closed", ![i].proc = FALSE]
    /\ UNCHANGED <<attached, siteEnv, sites, _spawnPort, usedPorts,
                   healthCheckIntervals, intervals, probing, isShuttingDown,
                   cleanupTimeout, waits, signals, ctl, exitCode, exitBy, reqs>>
    /\ UNCHANGED <<certVars, logVars>>

\* 'error' handler of Site.spawn (the launch failed): this.proc = null.
ChildError(i) ==
    /\ ctl = "running"
    /\ i \in DOMAIN insts
    /\ insts[i].os = "failed"
    /\ insts' = [insts EXCEPT ![i].os = "closed", ![i].proc = FALSE]
    /\ UNCHANGED <<attached, siteEnv, sites, _spawnPort, usedPorts,
                   healthCheckIntervals, intervals, probing, isShuttingDown,
                   cleanupTimeout, waits, signals, ctl, exitCode, exitBy, reqs>>
    /\ UNCHANGED <<certVars, logVars>>

(***************************************************************************)
(* gracefulShutdown and cleanup.                                           *)
(***************************************************************************)
\* A gracefulShutdown without its guard: every signal starts a cleanup.
AlreadyShuttingDownIgnored == FALSE

\* if (this.isShuttingDown)
AlreadyShuttingDown == isShuttingDown

\* The Sites cleanup waits for: site.proc && !site.proc.killed
CleanupTargets == {i \in Registered : insts[i].proc /\ ~insts[i].killed}

\* The synchronous part of cleanup: the 15 s timer, then per target the 5 s
\* timer, SIGTERM and the 'exit' listener; then Promise.all.
StartCleanup ==
    LET T == CleanupTargets
        I == [i \in DOMAIN insts |->
                 IF i \in T THEN Kill(insts[i], "SIGTERM") ELSE insts[i]]
        W == [i \in InstIds |->
                 IF i \in T THEN [st |-> "waiting", timer |-> KillDeadline]
                 ELSE waits[i]]
    IN AfterResolve(W, I, CleanupDeadline)

GracefulShutdown ==
    /\ ctl = "running"
    /\ attached
    /\ signals' = IF signals < 2 THEN signals + 1 ELSE signals
    /\ IF AlreadyShuttingDown
       THEN /\ ProcessExit(1, "signal", insts)
            /\ UNCHANGED <<isShuttingDown, cleanupTimeout, waits, intervals,
                           healthCheckIntervals>>
       ELSE /\ isShuttingDown' = TRUE
            /\ StartCleanup
    /\ UNCHANGED <<attached, siteEnv, sites, _spawnPort, usedPorts, probing, reqs>>
    /\ UNCHANGED <<certVars, logVars>>

\* The 5 s timer of cleanup for Site i.  site.proc.killed is read from
\* site.proc: when 'close' has set it to null the callback throws, and the
\* uncaught exception ends the controller with code 1.
KillTimeout(i) ==
    IF ~insts[i].proc
    THEN /\ ProcessExit(1, "uncaught", insts)
         /\ UNCHANGED <<waits, cleanupTimeout, intervals, healthCheckIntervals>>
    ELSE LET I == IF ~insts[i].killed
                  THEN [insts EXCEPT ![i] = Kill(@, "SIGKILL")]
                  ELSE insts
         IN AfterResolve([waits EXCEPT ![i] = Resolved], I, cleanupTimeout)

\* The 15 s timer of cleanup.
CleanupDeadlineExpired ==
    /\ ProcessExit(1, "deadline", insts)
    /\ UNCHANGED <<waits, cleanupTimeout, intervals, healthCheckIntervals>>

(***************************************************************************)
(* The router: router.all(/.*/).                                           *)
(***************************************************************************)
\* const site = this.sites[domain]; if (site)
SiteFound(d) == sites[d] # 0

\* axios' default validateStatus: a status outside 2xx rejects the call.
ValidateStatusDefault(s) == s >= 200 /\ s < 300

\* validateStatus: () => true : axios resolves whatever the status is.
ValidateStatus(s) == TRUE

\* A not-found branch that spawns without the write to this.sites.
CloneNotRegistered(d, launched) ==
    /\ Len(insts) < MaxInst
    /\ insts' = Append(insts, NewSite(d, _spawnPort, launched))
    /\ sites' = sites
    /\ _spawnPort' = _spawnPort + 1
    /\ usedPorts' = usedPorts \cup {_spawnPort}

\* Site.Clone(name, multisite): the spawnPort getter, the constructor, spawn().
Clone(d, launched) ==
    /\ Len(insts) < MaxInst
    /\ insts' = Append(insts, NewSite(d, _spawnPort, launched))
    /\ sites' = [sites EXCEPT ![d] = Len(insts) + 1]
    /\ _spawnPort' = _spawnPort + 1
    /\ usedPorts' = usedPorts \cup {_spawnPort}

\* The synchronous part of the handler, up to the await of the upstream call
\* (Site found) or to the end (no Site: spawn, and arm the 2 s redirect).
Request(r, h, url, hdrs) ==
    /\ ctl = "running"
    /\ attached
    /\ reqs[r].st \in {"free", "done"}
    /\ LET d == WashName(h) IN
       IF SiteFound(d)
       THEN /\ reqs' = [reqs EXCEPT ![r] =
                    [FreeReq EXCEPT !.st = "upstream", !.host = h, !.url = url,
                                    !.port = insts[sites[d]].PORT,
                                    !.headers = hdrs,
                                    !.fwd = HeadersToForward(hdrs)]]
            /\ UNCHANGED <<sites, insts, _spawnPort, usedPorts>>
       ELSE /\ \E launched \in BOOLEAN : Clone(d, launched)
            /\ reqs' = [reqs EXCEPT ![r] =
                    [FreeReq EXCEPT !.st = "redirectWait", !.host = h, !.url = url,
                                    !.timer = RedirectDelay]]
    /\ UNCHANGED <<attached, siteEnv, healthCheckIntervals, intervals, probing,
                   isShuttingDown, cleanupTimeout, waits, signals, ctl, exitCode,
                   exitBy>>
    /\ UNCHANGED <<certVars, logVars>>

\* A backend listens on the port: a child launched with this PORT is running.
Listening(port) == \E i \in DOMAIN insts : insts[i].PORT = port /\ insts[i].os = "running"

\* A catch block that reaps and respawns (the block left commented out in the
\* handler): removeDeadSites, then on ECONNREFUSED a new Site and a 503.
ProxyCatchRespawn(r, e, s) ==
    LET d == WashName(reqs[r].host)
        dead == {x \in Domains : sites[x] # 0 /\ insts[sites[x]].proc
                                               /\ insts[sites[x]].killed}
    IN IF e = "ECONNREFUSED" /\ Len(insts) < MaxInst
       THEN /\ insts' = Append(insts, NewSite(d, _spawnPort, TRUE))
            /\ sites' = [x \in Domains |-> IF x = d THEN Len(insts) + 1
                                           ELSE IF x \in dead THEN 0 ELSE sites[x]]
            /\ _spawnPort' = _spawnPort + 1
            /\ usedPorts' = (usedPorts \ {insts[sites[x]].PORT : x \in dead})
                                \cup {_spawnPort}
            /\ reqs' = [reqs EXCEPT ![r].st = "done", ![r].up = e, ![r].upStatus = s,
                                    ![r].status = 503, ![r].kind = "error",
                                    ![r].port = 0, ![r].host = "",
                                    ![r].headers = NoHeaders, ![r].fwd = NoHeaders]
       ELSE /\ reqs' = [reqs EXCEPT ![r].st = "done", ![r].up = e, ![r].upStatus = s,
                                    ![r].status = 502, ![r].kind = "error",
                                    ![r].port = 0, ![r].host = "",
                                    ![r].headers = NoHeaders, ![r].fwd = NoHeaders]
            /\ UNCHANGED <<sites, insts, _spawnPort, usedPorts>>

\* The catch block of the handler: 502 to the client, nothing else changes.
ProxyCatch(r, e, s) ==
    /\ reqs' = [reqs EXCEPT ![r].st = "done", ![r].up = e, ![r].upStatus = s,
                            ![r].status = 502, ![r].kind = "error", ![r].port = 0,
                            ![r].host = "", ![r].headers = NoHeaders,
                            ![r].fwd = NoHeaders]
    /\ UNCHANGED <<sites, insts, _spawnPort, usedPorts>>

\* res.status(response.status).set(cleanHeaders), then pipe (binary path) or
\* send (textual path).
Relay(r, s, uh) ==
    /\ reqs' = [reqs EXCEPT ![r].st = "done", ![r].up = "resp", ![r].upStatus = s,
                            ![r].status = s, ![r].kind = "relay", ![r].port = 0,
                            ![r].host = "", ![r].headers = NoHeaders,
                            ![r].fwd = NoHeaders, ![r].upHeaders = uh,
                            ![r].out = IF IsBinaryRequest(reqs[r].url)
                                       THEN CleanHeadersBinary(uh)
                                       ELSE CleanHeadersText(uh)]
    /\ UNCHANGED <<sites, insts, _spawnPort, usedPorts>>

\* The same with the body: the binary path pipes response.data behind the
\* headers of the backend, the textual path sends it as a string.
RelayBody(r, s, uh, wire) ==
    /\ reqs' = [reqs EXCEPT ![r].st = "done", ![r].up = "resp", ![r].upStatus = s,
                            ![r].status = s, ![r].kind = "relay", ![r].port = 0,
                            ![r].host = "", ![r].headers = NoHeaders,
                            ![r].fwd = NoHeaders, ![r].upHeaders = uh,
                            ![r].out = IF IsBinaryRequest(reqs[r].url)
                                       THEN CleanHeadersBinary(uh)
                                       ELSE CleanHeadersText(uh),
                            ![r].upBody = wire,
                            ![r].outBody =
                                IF IsBinaryRequest(reqs[r].url)
                                THEN ClientReads(CleanHeadersBinary(uh), PipeBody(uh, wire))
                                ELSE SendBody(uh, wire)]
    /\ UNCHANGED <<sites, insts, _spawnPort, usedPorts>>

\* The upstream call resolves with the backend's response.
UpstreamResponse(r, s, uh) ==
    /\ ctl = "running"
    /\ reqs[r].st = "upstream"
    /\ Listening(reqs[r].port)
    /\ IF ValidateStatus(s) THEN Relay(r, s, uh) ELSE ProxyCatch(r, "resp", s)
    /\ UNCHANGED <<attached, siteEnv, healthCheckIntervals, intervals, probing,
                   isShuttingDown, cleanupTimeout, waits, signals, ctl, exitCode,
                   exitBy>>
    /\ UNCHANGED <<certVars, logVars>>

\* The upstream call resolves with a response that carries a body.
UpstreamBody(r, s, resp) ==
    /\ ctl = "running"
    /\ reqs[r].st = "upstream"
    /\ Listening(reqs[r].port)
    /\ IF ValidateStatus(s)
       THEN RelayBody(r, s, WireHeaders(resp), WireBody(resp))
       ELSE ProxyCatch(r, "resp", s)
    /\ UNCHANGED <<attached, siteEnv, healthCheckIntervals, intervals, probing,
                   isShuttingDown, cleanupTimeout, waits, signals, ctl, exitCode,
                   exitBy>>
    /\ UNCHANGED <<certVars, logVars>>

\* The upstream call rejects: connection refused, or the 30 s timeout.
UpstreamError(r, e) ==
    /\ ctl = "running"
    /\ reqs[r].st = "upstream"
    /\ ProxyCatch(r, e, 0)
    /\ UNCHANGED <<attached, siteEnv, healthCheckIntervals, intervals, probing,
                   isShuttingDown, cleanupTimeout, waits, signals, ctl, exitCode,
                   exitBy>>
    /\ UNCHANGED <<certVars, logVars>>

\* The 2 s timer of the not-found branch: res.redirect(`//${hostname}${url}`).
RedirectTimer(r) ==
    reqs' = [reqs EXCEPT ![r].st = "done", ![r].timer = -1, ![r].status = 302,
                         ![r].kind = "redirect"]

(***************************************************************************)
(* Timers.  RunTimer is one callback of Node's timers phase; Tick is one   *)
(* second passing, which it does only when no armed timer is due.          *)
(***************************************************************************)
ArmedTimers ==
    (IF cleanupTimeout >= 0 THEN {<<"cleanup", 0>>} ELSE {})
    \cup {<<"kill", i>> : i \in {j \in InstIds : waits[j].timer >= 0}}
    \cup {<<"redirect", r>> : r \in {q \in DOMAIN reqs : reqs[q].timer >= 0}}

TimeLeft(t) ==
    IF t[1] = "cleanup" THEN cleanupTimeout
    ELSE IF t[1] = "kill" THEN waits[t[2]].timer
    ELSE reqs[t[2]].timer

RunTimer ==
    /\ ctl = "running"
    /\ \E t \in ArmedTimers :
        /\ TimeLeft(t) = 0
        /\ IF t[1] = "cleanup" THEN CleanupDeadlineExpired /\ UNCHANGED reqs
           ELSE IF t[1] = "kill" THEN KillTimeout(t[2]) /\ UNCHANGED reqs
           ELSE /\ RedirectTimer(t[2])
                /\ UNCHANGED <<insts, waits, cleanupTimeout, intervals,
                               healthCheckIntervals, ctl, exitCode, exitBy>>
    /\ UNCHANGED <<attached, siteEnv, sites, _spawnPort, usedPorts, probing,
                   isShuttingDown, signals>>
    /\ UNCHANGED <<certVars, logVars>>

Tick ==
    /\ ctl = "running"
    /\ ArmedTimers # {}
    /\ \A t \in ArmedTimers : TimeLeft(t) > 0
    /\ cleanupTimeout' = IF cleanupTimeout > 0 THEN cleanupTimeout - 1 ELSE cleanupTimeout
    /\ waits' = [i \in InstIds |->
                    IF waits[i].timer > 0 THEN [waits[i] EXCEPT !.timer = @ - 1]
                    ELSE waits[i]]
    /\ reqs' = [r \in DOMAIN reqs |->
                    IF reqs[r].timer > 0 THEN [reqs[r] EXCEPT !.timer = @ - 1]
                    ELSE reqs[r]]
    /\ UNCHANGED <<attached, siteEnv, sites, insts, _spawnPort, usedPorts,
                   healthCheckIntervals, intervals, probing, isShuttingDown,
                   signals, ctl, exitCode, exitBy>>
    /\ UNCHANGED <<certVars, logVars>>

(***************************************************************************)
(* Health checks.  Site.spawn starts them through this.startHealthCheck,   *)
(* a property the Site does not have (the method is MultiSite's), so the   *)
(* only calls of startHealthCheck are the host application's.              *)
(***************************************************************************)
\* The probe is axios.get(.., {timeout: 5000}): when the 5 s pass without a
\* response axios rejects with this code (its transitional option
\* clarifyTimeoutError, which would make it ETIMEDOUT, is not set).
AxiosTimeoutCode == "ECONNABORTED"

ProbeOutcomes == {"status", "other", AxiosTimeoutCode} \cup NetErrors

\* if (error.code === 'ECONNREFUSED' || error.code === 'ETIMEDOUT')
ProbeFailed(out) == out \in NetErrors

\* if (this.startHealthCheck), evaluated on a Site: class Site defines no such
\* method and nothing assigns one.
SiteHasStartHealthCheck == FALSE

\* The two startup timers of Site.spawn (1 s, then 5 s), taken as one callback:
\* the health check is started if the process is still there and the Site has
\* the method.
StartupTimers(i) ==
    /\ ctl = "running"
    /\ i \in DOMAIN insts
    /\ IF insts[i].proc /\ ~insts[i].killed /\ SiteHasStartHealthCheck
          /\ i \notin intervals
       THEN /\ intervals' = intervals \cup {i}
            /\ healthCheckIntervals' = [healthCheckIntervals EXCEPT ![insts[i].name] = i]
       ELSE UNCHANGED <<intervals, healthCheckIntervals>>
    /\ UNCHANGED <<attached, siteEnv, sites, insts, _spawnPort, usedPorts, probing,
                   isShuttingDown, cleanupTimeout, waits, signals, ctl, exitCode,
                   exitBy, reqs>>
    /\ UNCHANGED <<certVars, logVars>>

\* startHealthCheck(site), called by the host on a Site of the registry.
StartHealthCheck(i) ==
    /\ ctl = "running"
    /\ i \in Registered
    /\ i \notin intervals
    /\ intervals' = intervals \cup {i}
    /\ healthCheckIntervals' = [healthCheckIntervals EXCEPT ![insts[i].name] = i]
    /\ UNCHANGED <<attached, siteEnv, sites, insts, _spawnPort, usedPorts, probing,
                   isShuttingDown, cleanupTimeout, waits, signals, ctl, exitCode,
                   exitBy, reqs>>
    /\ UNCHANGED <<certVars, logVars>>

\* The interval callback, up to the await of the probe.
HealthTick(i) ==
    /\ ctl = "running"
    /\ i \in intervals
    /\ i \notin probing
    /\ IF ~insts[i].proc \/ insts[i].killed
       THEN /\ intervals' = intervals \ {i}
            /\ healthCheckIntervals' = [healthCheckIntervals EXCEPT ![insts[i].name] = 0]
            /\ UNCHANGED probing
       ELSE /\ probing' = probing \cup {i}
            /\ UNCHANGED <<intervals, healthCheckIntervals>>
    /\ UNCHANGED <<attached, siteEnv, sites, insts, _spawnPort, usedPorts,
                   isShuttingDown, cleanupTimeout, waits, signals, ctl, exitCode,
                   exitBy, reqs>>
    /\ UNCHANGED <<certVars, logVars>>

\* An interval callback without the try/catch around the probe: the rejection
\* of the probe leaves the callback and ends the controller.
ProbeResultUncaught(i, out) ==
    /\ ctl = "running"
    /\ i \in probing
    /\ out = "status" => Listening(insts[i].PORT)
    /\ probing' = probing \ {i}
    /\ IF ProbeFailed(out)
       THEN /\ ProcessExit(1, "uncaught", insts)
            /\ UNCHANGED <<intervals, healthCheckIntervals>>
       ELSE UNCHANGED <<intervals, healthCheckIntervals, insts, ctl, exitCode, exitBy>>
    /\ UNCHANGED <<attached, siteEnv, sites, _spawnPort, usedPorts, isShuttingDown,
                   cleanupTimeout, waits, signals, reqs>>
    /\ UNCHANGED <<certVars, logVars>>

\* The probe settles.  Any HTTP status counts as alive; so does any error
\* that is neither ECONNREFUSED nor ETIMEDOUT.
ProbeResult(i, out) ==
    /\ ctl = "running"
    /\ i \in probing
    /\ out = "status" => Listening(insts[i].PORT)
    /\ probing' = probing \ {i}
    /\ IF ProbeFailed(out)
       THEN /\ intervals' = intervals \ {i}
            /\ healthCheckIntervals' = [healthCheckIntervals EXCEPT ![insts[i].name] = 0]
            /\ insts' = IF insts[i].proc /\ ~insts[i].killed
                        THEN [insts EXCEPT ![i] = Kill(@, "SIGTERM")]
                        ELSE insts
       ELSE UNCHANGED <<intervals, healthCheckIntervals, insts>>
    /\ UNCHANGED <<attached, siteEnv, sites, _spawnPort, usedPorts, isShuttingDown,
                   cleanupTimeout, waits, signals, ctl, exitCode, exitBy, reqs>>
    /\ UNCHANGED <<certVars, logVars>>

(***************************************************************************)
(* restartSite and removeDeadSites, called by the host application.        *)
(***************************************************************************)
RestartSite(d) ==
    /\ ctl = "running"
    /\ attached
    /\ Len(insts) < MaxInst
    /\ LET old == sites[d]
           id == IF old # 0 THEN healthCheckIntervals[insts[old].name] ELSE 0
           I == IF old # 0 /\ insts[old].proc /\ ~insts[old].killed
                THEN [insts EXCEPT ![old] = Kill(@, "SIGTERM")]
                ELSE insts
           U == IF old # 0 THEN usedPorts \ {insts[old].PORT} ELSE usedPorts
       IN /\ intervals' = intervals \ {id}
          /\ healthCheckIntervals' =
                IF id # 0 THEN [healthCheckIntervals EXCEPT ![insts[old].name] = 0]
                ELSE healthCheckIntervals
          /\ \E launched \in BOOLEAN :
                insts' = Append(I, NewSite(d, _spawnPort, launched))
          /\ sites' = [sites EXCEPT ![d] = Len(insts) + 1]
          /\ _spawnPort' = _spawnPort + 1
          /\ usedPorts' = U \cup {_spawnPort}
    /\ UNCHANGED <<attached, siteEnv, probing, isShuttingDown, cleanupTimeout, waits,
                   signals, ctl, exitCode, exitBy, reqs>>
    /\ UNCHANGED <<certVars, logVars>>

\* if (site.proc && site.proc.killed)
DeadSites == {d \in Domains : sites[d] # 0 /\ insts[sites[d]].proc /\ insts[sites[d]].killed}

RemoveDeadSites ==
    /\ ctl = "running"
    /\ attached
    /\ DeadSites # {}
    /\ usedPorts' = usedPorts \ {insts[sites[d]].PORT : d \in DeadSites}
    /\ sites' = [d \in Domains |-> IF d \in DeadSites THEN 0 ELSE sites[d]]
    /\ UNCHANGED <<attached, siteEnv, insts, _spawnPort, healthCheckIntervals,
                   intervals, probing, isShuttingDown, cleanupTimeout, waits,
                   signals, ctl, exitCode, exitBy, reqs>>
    /\ UNCHANGED <<certVars, logVars>>

(***************************************************************************)
(* The catch block of the proxy path, seen from the limiter: a request of  *)
(* the pair of key k fails dt seconds after the previous failure, and the  *)
(* handler asks shouldLogError whether to write the error to the console.  *)
(* windowStart and windowCount follow the failures themselves: a failure   *)
(* more than LogWindow after the first one of the window opens a window.   *)
(***************************************************************************)
LogUpstreamFailure(k, dt) ==
    /\ ctl = "running"
    /\ attached
    /\ logCalls < MaxLogCalls
    /\ LET t == logNow + dt
           r == shouldLogError(errorLogTracker[k], t)
           opens == windowStart = -1 \/ t - windowStart > LogWindow
       IN /\ logNow' = t
          /\ errorLogTracker' = [errorLogTracker EXCEPT ![k] = r.entry]
          /\ logged' = r.ret
          /\ prevLogAt' = IF logged THEN logNow ELSE prevLogAt
          /\ windowStart' = IF opens THEN t ELSE windowStart
          /\ windowCount' = IF opens THEN 1 ELSE windowCount + 1
    /\ logCalls' = logCalls + 1
    /\ UNCHANGED <<attached, siteEnv, sites, insts, _spawnPort, usedPorts,
                   healthCheckIntervals, intervals, probing, isShuttingDown,
                   cleanupTimeout, waits, signals, ctl, exitCode, exitBy, reqs>>
    /\ UNCHANGED certVars

(***************************************************************************)
(* Three views of the controller, each with the events of one concern:    *)
(* routing and the registry; health checks; shutdown.                      *)
(***************************************************************************)
NextRouter ==
    \/ Attach
    \/ \E r \in 1..MaxReq, h \in Hosts, url \in Urls : Request(r, h, url, GetHeaders(h))
    \/ \E r \in 1..MaxReq, s \in Statuses :
            UpstreamResponse(r, s, PlainResponseHeaders)
    \/ \E r \in 1..MaxReq, e \in NetErrors : UpstreamError(r, e)
    \/ \E i \in InstIds : ChildExit(i)
    \/ \E i \in InstIds : ChildClose(i)
    \/ \E i \in InstIds : ChildError(i)
    \/ \E d \in Domains : RestartSite(d)
    \/ RunTimer
    \/ Tick

NextHealth ==
    \/ Attach
    \/ \E r \in 1..MaxReq, h \in Hosts, url \in Urls : Request(r, h, url, GetHeaders(h))
    \/ \E r \in 1..MaxReq, s \in Statuses :
            UpstreamResponse(r, s, PlainResponseHeaders)
    \/ \E r \in 1..MaxReq, e \in NetErrors : UpstreamError(r, e)
    \/ \E i \in InstIds : ChildExit(i)
    \/ \E i \in InstIds : ChildClose(i)
    \/ \E i \in InstIds : ChildError(i)
    \/ \E i \in InstIds : StartHealthCheck(i)
    \/ \E i \in InstIds : HealthTick(i)
    \/ \E i \in InstIds, out \in ProbeOutcomes : ProbeResult(i, out)
    \/ RemoveDeadSites
    \/ RunTimer
    \/ Tick

NextShutdown ==
    \/ Attach
    \/ \E r \in 1..MaxReq, h \in Hosts, url \in Urls : Request(r, h, url, GetHeaders(h))
    \/ \E r \in 1..MaxReq, s \in Statuses :
            UpstreamResponse(r, s, PlainResponseHeaders)
    \/ \E r \in 1..MaxReq, e \in NetErrors : UpstreamError(r, e)
    \/ \E i \in InstIds : ChildExit(i)
    \/ \E i \in InstIds : ChildClose(i)
    \/ \E i \in InstIds : ChildError(i)
    \/ GracefulShutdown
    \/ RunTimer
    \/ Tick

\* The certificate manager at rest, for the specification of the router and
\* the supervisor alone.
(***************************************************************************)
(* The certificate manager (class Certify).  Names offered by SNI, the     *)
(* test of getSiteKeys for names that get no certificate, and the dates of *)
(* the config documents: ssl.certified is written with format("YYYY-MM-DD")*)
(* and read back with moment(string), the midnight that starts that day.   *)
(***************************************************************************)
SniNames == {"a.com", "localhost", "dev.local", "10.0.0.1"}

Includes(h, part) == part = ".local" /\ h \in {"dev.local"}

\* A test for local names without the test for IPv4 literals.
IsLocalNameNoLiteral(h) == h = "localhost" \/ Includes(h, ".local")

IsLocalName(h) == h = "localhost" \/ Includes(h, ".local") \/ IsIPv4Literal(h)

CertDomains == {h \in SniNames : ~IsLocalName(h)}

\* A second domain with a document and a directory in the config store; only
\* the specification of issuance offers it to SNI.
OtherDomains == {"b.com"}

StoreDomains == CertDomains \cup OtherDomains

FormatDate(t) == t \div DaySeconds

ParseDate(c) == c * DaySeconds

\* A staleness test that looks for the date only, not at its age.
NeedsRenewalUndated(c) == c.certified = -1

\* !sslConfig?.certified || moment().isAfter(moment(certified).add(MAX_AGE,'days'))
NeedsRenewal(c) ==
    c.certified = -1 \/ now > ParseDate(c.certified) + MAX_AGE * DaySeconds

\* A freshness test that adds MAX_AGE seconds instead of days.
IsFreshInSeconds(c) ==
    c.certified # -1 /\ now < ParseDate(c.certified) + MAX_AGE

\* sslConfig?.certified && moment().isBefore(moment(certified).add(MAX_AGE,'days'))
IsFresh(c) ==
    c.certified # -1 /\ now < ParseDate(c.certified) + MAX_AGE * DaySeconds

\* A scheduling branch without the test of the pending entry.
MayTriggerAlways(d) == TRUE

\* !this.pending[sitename] || moment().isAfter(pending.add(MAX_WAIT_TIME,'seconds'))
MayTrigger(d) == pending[d] = -1 \/ now > pending[d] + MAX_WAIT_TIME

NoRecord == [key |-> FALSE, cert |-> FALSE, certified |-> -1]

StaleRecord == [key |-> TRUE, cert |-> TRUE, certified |-> StartDay - MAX_AGE - 5]

FreshRecord == [key |-> TRUE, cert |-> TRUE, certified |-> StartDay - 10]

UndatedRecord == [key |-> TRUE, cert |-> TRUE, certified |-> -1]

NoResult == [host |-> "", res |-> "none", blob |-> 0]

CertAtRest ==
    /\ now = StartDay * DaySeconds
    /\ contactEmail = TRUE
    /\ store = [d \in StoreDomains |-> NoRecord]
    /\ blobs = [d \in StoreDomains |-> 0]
    /\ configPath = "/"
    /\ pending = [d \in StoreDomains |-> -1]
    /\ challenges = {}
    /\ tasks = <<>>
    /\ sni = NoResult

\* Certify.attach: the root config is loaded for the contact address; the
\* documents and blobs of the domains are what earlier runs have left.
InitCert ==
    /\ now = StartDay * DaySeconds
    /\ contactEmail \in BOOLEAN
    /\ store \in [StoreDomains -> {NoRecord, StaleRecord, FreshRecord, UndatedRecord}]
    /\ \A d \in OtherDomains : store[d] = FreshRecord
    /\ blobs = [d \in StoreDomains |-> IF store[d].key THEN 1 ELSE 0]
    /\ configPath = "/"
    /\ pending = [d \in StoreDomains |-> -1]
    /\ challenges = {}
    /\ tasks = <<>>
    /\ sni = NoResult

(***************************************************************************)
(* getSiteKeys.  A renewal is scheduled with setTimeout(.., 10); pending   *)
(* is written in the same step.  The call returns the blobs of the record  *)
(* it has loaded, or null.                                                 *)
(***************************************************************************)
ScheduledTask(d) ==
    [domain |-> d, origin |-> "timer", at |-> now, st |-> "scheduled", race |-> "none"]

\* A getSiteKeys without its setPath: the record and the blobs are read
\* where the shared Config object points.
GetSiteKeysNoSetPath(h) ==
    IF IsLocalName(h)
    THEN /\ sni' = [host |-> h, res |-> "null", blob |-> 0]
         /\ UNCHANGED <<configPath, pending, tasks>>
    ELSE LET p == IF configPath \in StoreDomains THEN configPath ELSE h
         IN /\ configPath' = p
            /\ IF NeedsRenewal(store[p]) /\ MayTrigger(h)
               THEN /\ Len(tasks) < MaxTasks
                    /\ pending' = [pending EXCEPT ![h] = now]
                    /\ tasks' = Append(tasks, ScheduledTask(h))
               ELSE UNCHANGED <<pending, tasks>>
            /\ sni' = IF store[p].key /\ store[p].cert
                      THEN [host |-> h, res |-> "ctx", blob |-> blobs[p]]
                      ELSE [host |-> h, res |-> "null", blob |-> 0]

GetSiteKeys(h) ==
    IF IsLocalName(h)
    THEN /\ sni' = [host |-> h, res |-> "null", blob |-> 0]
         /\ UNCHANGED <<configPath, pending, tasks>>
    ELSE /\ configPath' = h
         /\ IF NeedsRenewal(store[h]) /\ MayTrigger(h)
            THEN /\ Len(tasks) < MaxTasks
                 /\ pending' = [pending EXCEPT ![h] = now]
                 /\ tasks' = Append(tasks, ScheduledTask(h))
            ELSE UNCHANGED <<pending, tasks>>
         /\ sni' = IF store[h].key /\ store[h].cert
                   THEN [host |-> h, res |-> "ctx", blob |-> blobs[h]]
                   ELSE [host |-> h, res |-> "null", blob |-> 0]

\* A call of getSiteKeys by the host application.
ResolveContext(h) ==
    /\ GetSiteKeys(h)
    /\ UNCHANGED <<now, contactEmail, store, blobs, challenges>>
    /\ UNCHANGED siteVars

\* The SNICallback of the TLS server.
SNICallback(h) ==
    /\ IF h \in StoreDomains /\ pending[h] # -1
       THEN /\ sni' = [host |-> h, res |-> "pending", blob |-> 0]
            /\ UNCHANGED <<configPath, pending, tasks>>
       ELSE GetSiteKeys(h)
    /\ UNCHANGED <<now, contactEmail, store, blobs, challenges>>
    /\ UNCHANGED siteVars

(***************************************************************************)
(* renewCert up to its first await: the freshness test, the contact        *)
(* address, pending, and the race of doRenewCert against the 120 s timer.  *)
(***************************************************************************)
\* A renewCert without the test for the contact address.
RenewCertOutcomeNoContactTest(d) ==
    IF IsFresh(store[d]) THEN "noop" ELSE "csr"

RenewCertOutcome(d) ==
    IF IsFresh(store[d]) THEN "noop"
    ELSE IF ~contactEmail THEN "noemail"
    ELSE "csr"

\* The callback of the timer that getSiteKeys has set.
RenewTimer(k) ==
    /\ k \in DOMAIN tasks
    /\ tasks[k].st = "scheduled"
    /\ LET d == tasks[k].domain
           out == RenewCertOutcome(d)
       IN /\ configPath' = d
          /\ tasks' = [tasks EXCEPT ![k].st = out, ![k].at = now,
                                    ![k].race = IF out = "csr" THEN "open" ELSE "none"]
          /\ pending' = IF out = "csr" THEN [pending EXCEPT ![d] = now]
                        ELSE IF out = "noemail" THEN [pending EXCEPT ![d] = -1]
                        ELSE pending
    /\ UNCHANGED <<now, contactEmail, store, blobs, challenges, sni>>
    /\ UNCHANGED siteVars

\* renewCert called by the host application: an exception goes to the caller.
RenewCert(d) ==
    /\ Len(tasks) < MaxTasks
    /\ LET out == RenewCertOutcome(d)
       IN /\ configPath' = d
          /\ tasks' = Append(tasks, [domain |-> d, origin |-> "direct", at |-> now,
                                     st |-> out,
                                     race |-> IF out = "csr" THEN "open" ELSE "none"])
          /\ pending' = IF out = "csr" THEN [pending EXCEPT ![d] = now] ELSE pending
    /\ UNCHANGED <<now, contactEmail, store, blobs, challenges, sni>>
    /\ UNCHANGED siteVars

(***************************************************************************)
(* doRenewCert: createCsr, acme.auto with the challenge callbacks, then    *)
(* the blobs and the record.  The race does not cancel it: its end writes  *)
(* whether or not the 120 s timer has already rejected.                    *)
(***************************************************************************)
CsrDone(k) ==
    /\ k \in DOMAIN tasks
    /\ tasks[k].st = "csr"
    /\ tasks' = [tasks EXCEPT ![k].st = "acme"]
    /\ UNCHANGED <<now, contactEmail, store, blobs, configPath, pending, challenges, sni>>
    /\ UNCHANGED siteVars

ChallengeCreate(k) ==
    /\ k \in DOMAIN tasks
    /\ tasks[k].st = "acme"
    /\ k \notin challenges
    /\ challenges' = challenges \cup {k}
    /\ UNCHANGED <<now, contactEmail, store, blobs, configPath, pending, tasks, sni>>
    /\ UNCHANGED siteVars

\* An end of doRenewCert without its setPath: the blobs and the record go
\* where the shared Config object points.
AcmeSuccessNoSetPath(k) ==
    /\ k \in DOMAIN tasks
    /\ tasks[k].st = "acme"
    /\ LET d == tasks[k].domain
           w == IF configPath \in StoreDomains THEN configPath ELSE d
       IN /\ challenges' = challenges \ {k}
          /\ configPath' = w
          /\ blobs' = [blobs EXCEPT ![w] = k + 1]
          /\ store' = [store EXCEPT ![w] = [key |-> TRUE, cert |-> TRUE,
                                            certified |-> FormatDate(now)]]
          /\ pending' = [pending EXCEPT ![d] = -1]
          /\ tasks' = [tasks EXCEPT ![k].st = "done",
                                    ![k].race = IF @ = "open" THEN "ok" ELSE @]
    /\ UNCHANGED <<now, contactEmail, sni>>
    /\ UNCHANGED siteVars

AcmeSuccess(k) ==
    /\ k \in DOMAIN tasks
    /\ tasks[k].st = "acme"
    /\ LET d == tasks[k].domain
       IN /\ challenges' = challenges \ {k}
          /\ configPath' = d
          /\ blobs' = [blobs EXCEPT ![d] = k + 1]
          /\ store' = [store EXCEPT ![d] = [key |-> TRUE, cert |-> TRUE,
                                            certified |-> FormatDate(now)]]
          /\ pending' = [pending EXCEPT ![d] = -1]
          /\ tasks' = [tasks EXCEPT ![k].st = "done",
                                    ![k].race = IF @ = "open" THEN "ok" ELSE @]
    /\ UNCHANGED <<now, contactEmail, sni>>
    /\ UNCHANGED siteVars

\* A catch of renewCert that leaves pending alone when doRenewCert rejects.
AcmeFailKeepsPending(k) ==
    /\ k \in DOMAIN tasks
    /\ tasks[k].st \in {"csr", "acme"}
    /\ challenges' = challenges \ {k}
    /\ tasks' = [tasks EXCEPT ![k].st = "failed",
                              ![k].race = IF @ = "open" THEN "err" ELSE @]
    /\ UNCHANGED <<now, contactEmail, store, blobs, configPath, pending, sni>>
    /\ UNCHANGED siteVars

\* createCsr or acme.auto rejects; the catch blocks run if the race is open.
AcmeFail(k) ==
    /\ k \in DOMAIN tasks
    /\ tasks[k].st \in {"csr", "acme"}
    /\ LET d == tasks[k].domain
       IN /\ challenges' = challenges \ {k}
          /\ pending' = IF tasks[k].race = "open" THEN [pending EXCEPT ![d] = -1]
                        ELSE pending
          /\ tasks' = [tasks EXCEPT ![k].st = "failed",
                                    ![k].race = IF @ = "open" THEN "err" ELSE @]
    /\ UNCHANGED <<now, contactEmail, store, blobs, configPath, sni>>
    /\ UNCHANGED siteVars

TimeoutDue(k) == tasks[k].race = "open" /\ now >= tasks[k].at + RenewalTimeout

\* A catch of renewCert that rethrows without deleting pending.
RenewalTimedOutKeepsPending(k) ==
    /\ k \in DOMAIN tasks
    /\ TimeoutDue(k)
    /\ tasks' = [tasks EXCEPT ![k].race = "timeout"]
    /\ UNCHANGED <<now, contactEmail, store, blobs, configPath, pending, challenges, sni>>
    /\ UNCHANGED siteVars

\* The 120 s timer rejects the race; the catch of renewCert deletes pending.
RenewalTimedOut(k) ==
    /\ k \in DOMAIN tasks
    /\ TimeoutDue(k)
    /\ pending' = [pending EXCEPT ![tasks[k].domain] = -1]
    /\ tasks' = [tasks EXCEPT ![k].race = "timeout"]
    /\ UNCHANGED <<now, contactEmail, store, blobs, configPath, challenges, sni>>
    /\ UNCHANGED siteVars

\* The clock advances when no timer of the certificate manager is due.
ClockAdvance ==
    /\ now < StartDay * DaySeconds + MaxTicks * TickLen
    /\ \A k \in DOMAIN tasks : tasks[k].st # "scheduled" /\ ~TimeoutDue(k)
    /\ now' = now + TickLen
    /\ UNCHANGED <<contactEmail, store, blobs, configPath, pending, challenges, tasks, sni>>
    /\ UNCHANGED siteVars

NextCert ==
    \/ \E h \in SniNames : ResolveContext(h)
    \/ \E h \in SniNames : SNICallback(h)
    \/ \E d \in CertDomains : RenewCert(d)
    \/ \E k \in 1..MaxTasks : RenewTimer(k)
    \/ \E k \in 1..MaxTasks : CsrDone(k)
    \/ \E k \in 1..MaxTasks : ChallengeCreate(k)
    \/ \E k \in 1..MaxTasks : AcmeSuccess(k)
    \/ \E k \in 1..MaxTasks : AcmeFail(k)
    \/ \E k \in 1..MaxTasks : RenewalTimedOut(k)
    \/ ClockAdvance

SiteAtRest == InitSite /\ siteEnv = "unset"

(***************************************************************************)
(* The challenge route of Certify.routes.  The host application mounts     *)
(* Certify's router before MultiSite's (the order of the README), so a     *)
(* request that the challenge route does not answer goes on to router.all. *)
(* A token of the store is the token of the renewal that created it.       *)
(***************************************************************************)
Methods == {"GET", "POST"}

TokenOf(k) == "tok" \o ToString(k)

KeyAuthorization(t) == t \o ".thumbprint"

\* Names that every object inherits from Object.prototype.
ObjectPrototypeKeys == {"constructor"}

RequestTokens == {TokenOf(k) : k \in 1..MaxTasks} \cup ObjectPrototypeKeys

ChallengeUrl(t) == "/.well-known/acme-challenge/" \o t

IsChallengePath(url) == \E t \in RequestTokens : url = ChallengeUrl(t)

\* req.params[0]
TokenOfUrl(url) == CHOOSE t \in RequestTokens : url = ChallengeUrl(t)

StoredTokens == {TokenOf(k) : k \in challenges}

\* token in this.challenges : own keys and inherited ones.
TokenInChallenges(t) == t \in StoredTokens \/ t \in ObjectPrototypeKeys

\* this.challenges[token] : a string for a stored token; for an inherited
\* name a function, which res.end refuses with a TypeError after
\* writeHead(200), and the connection is dropped without an answer.
ChallengeRoute(r, t) ==
    reqs' = [reqs EXCEPT ![r] =
        IF TokenInChallenges(t)
        THEN IF t \in StoredTokens
             THEN [FreeReq EXCEPT !.st = "done", !.url = ChallengeUrl(t),
                                  !.kind = "challenge", !.status = 200,
                                  !.body = KeyAuthorization(t)]
             ELSE [FreeReq EXCEPT !.st = "done", !.url = ChallengeUrl(t),
                                  !.kind = "aborted", !.status = 200]
        ELSE [FreeReq EXCEPT !.st = "done", !.url = ChallengeUrl(t),
                             !.kind = "challenge", !.status = 404,
                             !.body = "Challenge not found"]]

\* A request for the challenge path: router.get of Certify takes GET, every
\* other method goes on to the router of MultiSite.
ChallengeRequest(r, m, h, t) ==
    IF m = "GET"
    THEN /\ ctl = "running"
         /\ attached
         /\ reqs[r].st \in {"free", "done"}
         /\ ChallengeRoute(r, t)
         /\ UNCHANGED <<attached, siteEnv, sites, insts, _spawnPort, usedPorts,
                        healthCheckIntervals, intervals, probing, isShuttingDown,
                        cleanupTimeout, waits, signals, ctl, exitCode, exitBy>>
         /\ UNCHANGED <<certVars, logVars>>
    ELSE Request(r, h, ChallengeUrl(t), PostHeaders(h))

NextChallenge ==
    \/ Attach
    \/ \E r \in 1..MaxReq, m \in Methods, h \in Hosts, t \in RequestTokens :
            ChallengeRequest(r, m, h, t)
    \/ \E r \in 1..MaxReq, s \in Statuses :
            UpstreamResponse(r, s, PlainResponseHeaders)
    \/ \E r \in 1..MaxReq, e \in NetErrors : UpstreamError(r, e)
    \/ RunTimer
    \/ Tick
    \/ \E h \in SniNames : SNICallback(h)
    \/ \E k \in 1..MaxTasks : RenewTimer(k)
    \/ \E k \in 1..MaxTasks : CsrDone(k)
    \/ \E k \in 1..MaxTasks : ChallengeCreate(k)
    \/ \E k \in 1..MaxTasks : AcmeSuccess(k)
    \/ \E k \in 1..MaxTasks : AcmeFail(k)

InitChallenge == SiteAtRest /\ CertAtRest

SpecChallenge == InitChallenge /\ [][NextChallenge]_vars

(***************************************************************************)
(* The challenge route during issuance attempts that may succeed, fail or  *)
(* outlast the 120 s timer of renewCert.                                   *)
(***************************************************************************)
NextToken ==
    \/ Attach
    \/ \E r \in 1..MaxReq, h \in CertDomains, t \in RequestTokens :
            ChallengeRequest(r, "GET", h, t)
    \/ \E h \in CertDomains : SNICallback(h)
    \/ \E k \in 1..MaxTasks : RenewTimer(k)
    \/ \E k \in 1..MaxTasks : CsrDone(k)
    \/ \E k \in 1..MaxTasks : ChallengeCreate(k)
    \/ \E k \in 1..MaxTasks : AcmeSuccess(k)
    \/ \E k \in 1..MaxTasks : AcmeFail(k)
    \/ \E k \in 1..MaxTasks : RenewalTimedOut(k)
    \/ ClockAdvance

SpecToken == InitChallenge /\ [][NextToken]_vars

(***************************************************************************)
(* The background tasks of the controller together: the liveness probes of *)
(* the supervisor and the renewals of the certificate manager, with the    *)
(* events that make them fail.                                             *)
(***************************************************************************)
NextBackground ==
    \/ Attach
    \/ \E i \in InstIds : ChildExit(i)
    \/ \E i \in InstIds : ChildClose(i)
    \/ \E i \in InstIds : StartHealthCheck(i)
    \/ \E i \in InstIds : HealthTick(i)
    \/ \E i \in InstIds, out \in ProbeOutcomes : ProbeResult(i, out)
    \/ \E h \in CertDomains : SNICallback(h)
    \/ \E k \in 1..MaxTasks : RenewTimer(k)
    \/ \E k \in 1..MaxTasks : CsrDone(k)
    \/ \E k \in 1..MaxTasks : AcmeFail(k)
    \/ \E k \in 1..MaxTasks : RenewalTimedOut(k)
    \/ ClockAdvance

InitBackground ==
    /\ SiteAtRest
    /\ InitCert
    /\ \A d \in CertDomains : store[d] = NoRecord

SpecBackground == InitBackground /\ [][NextBackground]_vars

(***************************************************************************)
(* Issuance for two domains that share the one Config object: handshakes   *)
(* trigger renewals of both, and the exchanges interleave.                 *)
(***************************************************************************)
NextIssue ==
    \/ \E h \in StoreDomains : SNICallback(h)
    \/ \E k \in 1..MaxTasks : RenewTimer(k)
    \/ \E k \in 1..MaxTasks : CsrDone(k)
    \/ \E k \in 1..MaxTasks : ChallengeCreate(k)
    \/ \E k \in 1..MaxTasks : AcmeSuccess(k)
    \/ \E k \in 1..MaxTasks : AcmeFail(k)
    \/ \E k \in 1..MaxTasks : RenewalTimedOut(k)
    \/ ClockAdvance

InitIssue ==
    /\ SiteAtRest
    /\ now = StartDay * DaySeconds
    /\ contactEmail = TRUE
    /\ store \in [StoreDomains -> {NoRecord, StaleRecord}]
    /\ blobs = [d \in StoreDomains |-> IF store[d].key THEN 1 ELSE 0]
    /\ configPath = "/"
    /\ pending = [d \in StoreDomains |-> -1]
    /\ challenges = {}
    /\ tasks = <<>>
    /\ sni = NoResult

SpecIssue == InitIssue /\ [][NextIssue]_vars

(***************************************************************************)
(* The life of the pending entries: renewals triggered by handshakes and   *)
(* by getSiteKeys calls of the host, with exchanges that succeed, fail or  *)
(* never answer.  The timers of Node fire when they are due and time       *)
(* passes; nothing obliges the ACME server to answer.                      *)
(***************************************************************************)
NextPending ==
    \/ \E h \in CertDomains : ResolveContext(h)
    \/ \E h \in CertDomains : SNICallback(h)
    \/ \E k \in 1..MaxTasks : RenewTimer(k)
    \/ \E k \in 1..MaxTasks : CsrDone(k)
    \/ \E k \in 1..MaxTasks : AcmeSuccess(k)
    \/ \E k \in 1..MaxTasks : AcmeFail(k)
    \/ \E k \in 1..MaxTasks : RenewalTimedOut(k)
    \/ ClockAdvance

InitCertOnly == SiteAtRest /\ InitCert

SpecPending == InitCertOnly /\ [][NextPending]_vars

FairPending ==
    /\ SpecPending
    /\ \A k \in 1..MaxTasks : WF_vars(RenewTimer(k)) /\ WF_vars(RenewalTimedOut(k))
    /\ WF_vars(ClockAdvance)


SpecCert == InitCertOnly /\ [][NextCert]_vars

InitSiteOnly == InitSite /\ CertAtRest

SpecRouter == InitSiteOnly /\ [][NextRouter]_vars

\* The router with one request more in flight than the other views have:
\* the handlers of several requests interleave at their awaits and timers.
ConcurrentReqs == 1..(MaxReq + 1)

InitSpawn ==
    /\ attached = FALSE
    /\ siteEnv \in SiteEnvKinds
    /\ sites = [d \in Domains |-> 0]
    /\ insts = <<>>
    /\ _spawnPort = DefaultSpawnPort
    /\ usedPorts = {}
    /\ healthCheckIntervals = [d \in Domains |-> 0]
    /\ intervals = {}
    /\ probing = {}
    /\ isShuttingDown = FALSE
    /\ cleanupTimeout = -1
    /\ waits = [i \in InstIds |-> NoWait]
    /\ signals = 0
    /\ ctl = "running"
    /\ exitCode = -1
    /\ exitBy = "none"
    /\ reqs = [r \in ConcurrentReqs |-> FreeReq]
    /\ errorLogTracker = [k \in LogKeys |-> NoLogEntry]
    /\ logNow = 0
    /\ logged = FALSE
    /\ logCalls = 0
    /\ prevLogAt = -1
    /\ windowStart = -1
    /\ windowCount = 0
    /\ CertAtRest

NextSpawn ==
    \/ Attach
    \/ \E r \in ConcurrentReqs, h \in Hosts, url \in Urls :
            Request(r, h, url, GetHeaders(h))
    \/ \E r \in ConcurrentReqs, s \in Statuses :
            UpstreamResponse(r, s, PlainResponseHeaders)
    \/ \E r \in ConcurrentReqs, e \in NetErrors : UpstreamError(r, e)
    \/ \E i \in InstIds : ChildExit(i)
    \/ \E i \in InstIds : ChildClose(i)
    \/ \E i \in InstIds : ChildError(i)
    \/ RunTimer
    \/ Tick

SpecSpawn == InitSpawn /\ [][NextSpawn]_vars

\* The limiter alone: the failures of one pair, at any spacing of LogSteps.
NextLog ==
    \/ Attach
    \/ \E k \in LogKeys, dt \in LogSteps : LogUpstreamFailure(k, dt)

SpecLog == InitSiteOnly /\ [][NextLog]_vars

SpecHealth == InitSiteOnly /\ [][NextHealth]_vars

SpecShutdown == InitSiteOnly /\ [][NextShutdown]_vars

\* The router with requests and responses of every header set.
NextProxy ==
    \/ Attach
    \/ \E r \in 1..MaxReq, h \in Hosts, url \in Urls :
          \E hdrs \in {GetHeaders(h), PostHeaders(h)} : Request(r, h, url, hdrs)
    \/ \E r \in 1..MaxReq, s \in Statuses,
          uh \in {PlainResponseHeaders, ChunkedResponseHeaders} :
            UpstreamResponse(r, s, uh)
    \/ \E r \in 1..MaxReq, e \in NetErrors : UpstreamError(r, e)
    \/ \E i \in InstIds : ChildExit(i)
    \/ \E i \in InstIds : ChildClose(i)
    \/ RunTimer
    \/ Tick

SpecProxy == InitSiteOnly /\ [][NextProxy]_vars

\* The router with backends that answer with bodies.
NextBody ==
    \/ Attach
    \/ \E r \in 1..MaxReq, h \in Hosts, url \in Urls :
          Request(r, h, url, GetHeaders(h))
    \/ \E r \in 1..MaxReq, resp \in BackendResponses : UpstreamBody(r, 200, resp)
    \/ \E r \in 1..MaxReq, e \in NetErrors : UpstreamError(r, e)
    \/ RunTimer
    \/ Tick

SpecBody == InitSiteOnly /\ [][NextBody]_vars

\* The supervisor with a host that runs the sweep removeDeadSites again and
\* again: the handlers of the child events run, timers fire, time passes.
FairSweep ==
    /\ SpecHealth
    /\ WF_vars(RemoveDeadSites)
    /\ \A i \in InstIds : WF_vars(ChildClose(i)) /\ WF_vars(ChildError(i))
    /\ WF_vars(RunTimer) /\ WF_vars(Tick)

\* The supervisor with the startup timers of its Sites, which fire.
NextStartup ==
    \/ NextHealth
    \/ \E i \in InstIds : StartupTimers(i)

SpecStartup == InitSiteOnly /\ [][NextStartup]_vars

FairStartup ==
    /\ SpecStartup
    /\ \A i \in InstIds : WF_vars(StartupTimers(i))
    /\ WF_vars(RunTimer) /\ WF_vars(Tick)

\* Time passes and due timers run: the fairness the event loop gives.
FairShutdown == SpecShutdown /\ WF_vars(Tick) /\ WF_vars(RunTimer)

(***************************************************************************)
(* Properties of the router and the supervisor.                            *)
(***************************************************************************)

\* C3: the ports the backends are launched with (PORT after the SITE_ENV
\* overrides are merged) are pairwise distinct.
C3_LaunchPortsDistinct ==
    \A i, j \in DOMAIN insts : i # j => insts[i].PORT # insts[j].PORT

\* A Site of the registry that a failed liveness probe has sent SIGTERM:
\* without restartSite and cleanup, the probe is the only sender of it.
ProbeKilled(i) == i \in Registered /\ "SIGTERM" \in insts[i].sigs

\* C4: once the process of a Site that failed its liveness probe has exited,
\* the next request for the domain is not proxied to the dead port (it finds
\* no Site and spawns one).
C4_RequestAfterProbeKillRespawns ==
    [][\A r \in 1..MaxReq :
          (reqs[r].st \in {"free", "done"} /\ reqs'[r].st = "upstream")
          => LET i == sites[WashName(reqs'[r].host)] IN
             ~(ProbeKilled(i) /\ insts[i].os \in {"exited", "closed"})]_vars

\* C5: a child that is still running when its 5 s wait in cleanup has timed
\* out has been sent SIGKILL.
C5_KillAfterTimeout ==
    \A i \in DOMAIN insts :
        (waits[i].st = "resolved" /\ insts[i].os = "running")
        => "SIGKILL" \in insts[i].sigs

\* C6: after the first termination signal the controller eventually exits;
\* it exits with code 0 exactly when cleanup has completed (every wait has
\* finished, by the child's exit or by its 5 s timer), which always happens
\* before the 15 s deadline, and with code 1 on every other path.
C6_ExitCode ==
    /\ ctl = "exited" /\ exitBy = "cleanup"
          => exitCode = 0 /\ \A i \in InstIds : waits[i].st # "waiting"
    /\ ctl = "exited" /\ exitBy # "cleanup" => exitCode = 1
    /\ cleanupTimeout >= 0 => cleanupTimeout >= CleanupDeadline - KillDeadline

C6_ShutdownExits == [](C6_ExitCode) /\ (isShuttingDown ~> ctl = "exited")

C6_Witness ==
    /\ ctl = "exited" /\ exitCode = 0 /\ isShuttingDown
    /\ \E i \in DOMAIN insts : waits[i].st = "resolved" /\ insts[i].os = "running"

\* C7, as stated: the second termination signal ends the controller with
\* code 1 in that step, signals no child and creates no timer.
C7_SecondSignalSilent ==
    [][(signals = 1 /\ signals' = 2)
        => /\ ctl' = "exited" /\ exitCode' = 1
           /\ waits' = waits /\ cleanupTimeout' = cleanupTimeout
           /\ \A i \in DOMAIN insts : insts'[i].sigs = insts[i].sigs]_vars

\* C7, amended: the second termination signal ends the controller with code 1
\* in that step and starts no second cleanup: no SIGTERM is sent and no timer
\* is created; the only signals of the step are the SIGKILLs of the 'exit'
\* handler, to Sites of the registry that no kill() had signalled yet.
C7_SecondSignalForcesExit ==
    [][(signals = 1 /\ signals' = 2)
        => /\ ctl' = "exited" /\ exitCode' = 1
           /\ waits' = waits /\ cleanupTimeout' = cleanupTimeout
           /\ \A i \in DOMAIN insts :
                \/ insts'[i].sigs = insts[i].sigs
                \/ /\ insts'[i].sigs = insts[i].sigs \cup {"SIGKILL"}
                   /\ i \in Registered /\ ~insts[i].killed]_vars

C7_Witness ==
    /\ signals = 2 /\ ctl = "exited" /\ exitCode = 1
    /\ \E i \in DOMAIN insts : insts[i].sigs = {"SIGKILL"}

\* C8: a request for a domain with no registry entry adds, in the handler's
\* synchronous step, a Site for the domain with the freshly allocated port and
\* a process, and arms the 2 s redirect.
C8_SpawnBeforeRedirect ==
    [][\A r \in 1..MaxReq :
          (reqs[r].st \in {"free", "done"} /\ reqs'[r].st = "redirectWait")
          => LET d == WashName(reqs'[r].host)
                 n == sites'[d]
             IN /\ sites[d] = 0 /\ n = Len(insts) + 1 /\ Len(insts') = n
                /\ insts'[n].name = d
                /\ insts'[n].proc
                /\ insts'[n].PORT = _spawnPort
                /\ _spawnPort \notin usedPorts /\ _spawnPort \in usedPorts'
                /\ reqs'[r].timer = RedirectDelay]_vars

\* C9: an upstream call that fails with connection refused or timeout is
\* answered 502, and the step leaves the registry, the used-port set and the
\* Sites' processes unchanged.
C9_BadGatewayChangesNothing ==
    [][\A r \in 1..MaxReq :
          (reqs[r].st = "upstream" /\ reqs'[r].st = "done" /\ reqs'[r].up \in NetErrors)
          => /\ reqs'[r].status = 502 /\ reqs'[r].kind = "error"
             /\ sites' = sites /\ usedPorts' = usedPorts /\ insts' = insts]_vars

C9_Witness ==
    \E r \in 1..MaxReq :
        /\ reqs[r].st = "done" /\ reqs[r].up = "ECONNREFUSED" /\ reqs[r].status = 502
        /\ \E i \in DOMAIN insts : insts[i].os = "closed"

InFlight(k) == tasks[k].st = "acme" /\ tasks[k].race = "open"

\* C1: two renewal triggers for one domain (getSiteKeys calls that schedule a
\* renewal) less than 60 s apart never both have an ACME exchange in flight.
\* A retry after an exchange that failed is not counted, and neither is a run
\* in which renewCert has been called from outside getSiteKeys.
C1_OneExchangePerWindow ==
    \A j, k \in DOMAIN tasks :
        /\ j < k
        /\ \A t \in DOMAIN tasks : tasks[t].origin = "timer"
        /\ tasks[j].domain = tasks[k].domain
        /\ tasks[j].origin = "timer" /\ tasks[k].origin = "timer"
        /\ tasks[k].at - tasks[j].at < MAX_WAIT_TIME
        => ~(InFlight(j) /\ InFlight(k))

\* C2: a run of renewCert on a domain whose certified date is less than 75
\* days old returns before createCsr and acme.auto and leaves the record and
\* the blobs of every domain unchanged, from the timer and from a direct
\* call, and the returned call never proceeds later.
CertifiedWithinMaxAge(d) ==
    store[d].certified # -1 /\ FormatDate(now) - store[d].certified < MAX_AGE

C2_FreshRenewIsNoOp ==
    [][/\ \A k \in DOMAIN tasks :
            (tasks[k].st = "scheduled" /\ tasks'[k].st # "scheduled"
                /\ CertifiedWithinMaxAge(tasks[k].domain))
            => tasks'[k].st = "noop" /\ store' = store /\ blobs' = blobs
       /\ (Len(tasks') = Len(tasks) + 1 /\ tasks'[Len(tasks')].origin = "direct"
                /\ CertifiedWithinMaxAge(tasks'[Len(tasks')].domain))
            => tasks'[Len(tasks')].st = "noop" /\ store' = store /\ blobs' = blobs
       /\ \A k \in DOMAIN tasks :
            tasks[k].st = "noop" => tasks'[k] = tasks[k]]_vars

C2_Witness ==
    \E j, k \in DOMAIN tasks :
        /\ tasks[j].origin = "timer" /\ tasks[j].st = "noop"
        /\ tasks[k].origin = "direct" /\ tasks[k].st = "noop"

(***************************************************************************)
(* Properties of the header sets of the proxy.                             *)
(***************************************************************************)

\* C11: the header set sent to the backend does not carry the client's
\* content-length value, and the header set relayed to the client has neither
\* the transfer-encoding nor the content-encoding of the upstream response, on
\* the binary and on the textual path.
C11_HeadersFiltered ==
    \A r \in 1..MaxReq :
        /\ reqs[r].st = "upstream"
              => reqs[r].fwd["content-length"] \in {Absent, Undefined}
        /\ reqs[r].st = "done" /\ reqs[r].kind = "relay"
              => /\ reqs[r].out["transfer-encoding"] = Absent
                 /\ reqs[r].out["content-encoding"] = Absent
                 /\ \A n \in HeaderNames \ {"transfer-encoding", "content-encoding"} :
                        reqs[r].out[n] = reqs[r].upHeaders[n]

C11_Witness ==
    \E r \in 1..MaxReq :
        /\ reqs[r].st = "done" /\ reqs[r].kind = "relay"
        /\ ~IsBinaryRequest(reqs[r].url)
        /\ reqs[r].upHeaders["transfer-encoding"] = "chunked"
        /\ reqs[r].upHeaders["content-encoding"] = "gzip"
        /\ reqs[r].out["content-type"] = "text/html"

\* C12: the header set forwarded to the backend does not contain the host
\* header of the inbound request.
C12_HostNotForwarded ==
    \A r \in 1..MaxReq :
        reqs[r].st = "upstream" => reqs[r].fwd["host"] = Absent

(***************************************************************************)
(* Properties of the challenge route.                                      *)
(***************************************************************************)
\* A step in which request slot r takes up a request for the challenge path.
ChallengeArrives(r) ==
    /\ reqs'[r] # reqs[r]
    /\ reqs[r].st \in {"free", "done"}
    /\ IsChallengePath(reqs'[r].url)

\* C13: GET on the challenge path with token t answers 200 with the
\* authorization string of t when t is in the challenge store and 404 when it
\* is not, and never a redirect.
C13_ChallengeAnswer ==
    [][\A r \in 1..MaxReq :
          (ChallengeArrives(r) /\ reqs'[r].kind \in {"challenge", "aborted"})
          => LET t == TokenOfUrl(reqs'[r].url) IN
             /\ reqs'[r].st = "done"
             /\ reqs'[r].status # 302
             /\ t \in StoredTokens => /\ reqs'[r].status = 200
                                      /\ reqs'[r].kind = "challenge"
                                      /\ reqs'[r].body = KeyAuthorization(t)
             /\ t \notin StoredTokens => /\ reqs'[r].status = 404
                                         /\ reqs'[r].kind = "challenge"]_vars

\* C14: a request for the challenge path is answered by the challenge route:
\* it is not proxied, no Site is looked up for it and none is spawned.
C14_ChallengeBypassesSites ==
    [][\A r \in 1..MaxReq :
          ChallengeArrives(r)
          => /\ reqs'[r].st = "done"
             /\ reqs'[r].kind \in {"challenge", "aborted"}
             /\ sites' = sites /\ insts' = insts /\ usedPorts' = usedPorts]_vars

(***************************************************************************)
(* Properties of getSiteKeys and of the SNI callback.                      *)
(***************************************************************************)
\* A step in which a resolution for name h has returned.
Resolves(h) == sni' # sni /\ sni'.host = h

\* C15: for 'localhost', a name containing '.local' and a bare IPv4 literal,
\* getSiteKeys returns null, writes no pending entry, schedules no renewal
\* and does not load the config of the name.
C15_LocalNamesUntouched ==
    [][\A h \in {"localhost", "dev.local", "10.0.0.1"} :
          Resolves(h)
          => /\ sni'.res = "null"
             /\ pending' = pending /\ tasks' = tasks
             /\ configPath' = configPath
             /\ store' = store /\ blobs' = blobs]_vars

C15_Witness ==
    /\ sni.host = "10.0.0.1" /\ sni.res = "null"
    /\ configPath = "a.com"
    /\ \E k \in DOMAIN tasks : tasks[k].st = "acme"

\* A step in which getSiteKeys has returned for name h: the SNI callback
\* answers 'pending' without calling it.
GetSiteKeysReturns(h) == Resolves(h) /\ sni'.res # "pending"

\* The record of d has blobs and a certified date more than MAX_AGE days
\* old, or no certified date.
StaleWithBlobs(d) ==
    /\ store[d].key /\ store[d].cert
    /\ \/ store[d].certified = -1
       \/ FormatDate(now) - store[d].certified > MAX_AGE

\* The pending entry of d is at most MAX_WAIT_TIME seconds old.
PendingLive(d) == pending[d] # -1 /\ now - pending[d] <= MAX_WAIT_TIME

\* The renewals of d that have written their blobs and the record.
Completed(d) == {k \in DOMAIN tasks : tasks[k].domain = d /\ tasks[k].st = "done"}

C17_BlobsAlwaysServed ==
    [][\A d \in CertDomains :
          (Resolves(d) /\ store[d].key /\ store[d].cert)
          => sni'.res = "ctx" /\ sni'.blob = blobs[d]]_vars

\* A step in which the failure of renewal k is handled: the race is rejected
\* by doRenewCert or by the 120 s timer (catch of renewCert), or renewCert,
\* run by the timer of getSiteKeys, throws for the missing contact address
\* (catch of the timer callback).
FailureHandled(k) ==
    /\ k \in DOMAIN tasks
    /\ \/ tasks[k].race = "open" /\ tasks'[k].race \in {"err", "timeout"}
       \/ tasks[k].st = "scheduled" /\ tasks'[k].st = "noemail"

\* C18: when the failure of a renewal of a domain has been handled, the
\* domain has no pending entry, so the next getSiteKeys for it may schedule.
C18_FailureClearsPending ==
    [][\A k \in 1..MaxTasks :
          FailureHandled(k) => pending'[tasks[k].domain] = -1]_vars

C18_Witness ==
    /\ \E k \in DOMAIN tasks : tasks[k].race = "timeout"
    /\ \E k \in DOMAIN tasks : tasks[k].race = "err"
    /\ pending["a.com"] = -1

\* C20: with no contact address, a run of renewCert on a domain that is not
\* certified within MAX_AGE days throws before createCsr and acme.auto and
\* leaves the records and the blobs unchanged, and it never proceeds later.
C20_NoContactFailsFast ==
    [][/\ \A k \in DOMAIN tasks :
            (tasks[k].st = "scheduled" /\ tasks'[k].st # "scheduled"
                /\ ~contactEmail /\ ~CertifiedWithinMaxAge(tasks[k].domain))
            => tasks'[k].st = "noemail" /\ store' = store /\ blobs' = blobs
       /\ (Len(tasks') = Len(tasks) + 1 /\ tasks'[Len(tasks')].origin = "direct"
                /\ ~contactEmail /\ ~CertifiedWithinMaxAge(tasks'[Len(tasks')].domain))
            => tasks'[Len(tasks')].st = "noemail" /\ store' = store /\ blobs' = blobs
       /\ \A k \in DOMAIN tasks :
            tasks[k].st = "noemail" => tasks'[k] = tasks[k]]_vars

C20_Witness ==
    \E j, k \in DOMAIN tasks :
        /\ tasks[j].origin = "timer" /\ tasks[j].st = "noemail"
        /\ tasks[k].origin = "direct" /\ tasks[k].st = "noemail"
        /\ store["a.com"] = StaleRecord /\ blobs["a.com"] = 1

\* A step in which the liveness probe of Site i settles.
ProbeSettles(i) == i \in probing /\ i \notin probing'

\* A step in which renewal k fails: a failure handled by the catch of renewCert
\* or of the timer callback, or doRenewCert rejecting after the race is over.
RenewalFails(k) ==
    \/ FailureHandled(k)
    \/ /\ k \in DOMAIN tasks
       /\ tasks[k].st \in {"csr", "acme"}
       /\ tasks'[k].st = "failed"

\* The controller after the step: running, attached, with the registry of
\* Sites and the certificates of every domain as they were.
Contained ==
    /\ ctl' = "running" /\ exitCode' = -1 /\ exitBy' = "none"
    /\ attached' = attached
    /\ sites' = sites
    /\ store' = store /\ blobs' = blobs

\* C19: no failure of a background task leaves its handler: after a liveness
\* probe has settled (failed or timed out included) and after a renewal has
\* failed, timed out or rejected late, the controller is still running and
\* attached, with its registry and its certificates unchanged.
C19_BackgroundFailuresContained ==
    [][/\ \A i \in InstIds : ProbeSettles(i) => Contained
       /\ \A k \in 1..MaxTasks : RenewalFails(k) => Contained]_vars

C19_Witness ==
    /\ ctl = "running" /\ attached
    /\ \E i \in DOMAIN insts :
          insts[i].killed /\ i \notin intervals /\ i \notin probing
    /\ \E k \in DOMAIN tasks : tasks[k].race = "timeout" /\ tasks[k].st = "failed"
    /\ \E k \in DOMAIN tasks : tasks[k].race = "err"

\* A step in which the ACME exchange of renewal k succeeds.
ExchangeSucceeds(k) ==
    /\ k \in DOMAIN tasks
    /\ tasks[k].st = "acme"
    /\ tasks'[k].st = "done"

\* C21: when the ACME exchange of a renewal succeeds, new blobs are written
\* in the directory of its domain, the record of the domain holds the key,
\* the cert and the current date, the pending entry of the domain is gone,
\* and the record and the blobs of every other domain are as they were.
C21_SuccessPersists ==
    [][\A k \in 1..MaxTasks : ExchangeSucceeds(k) =>
          LET d == tasks[k].domain
          IN /\ blobs'[d] # blobs[d] /\ blobs'[d] # 0
             /\ store'[d].key /\ store'[d].cert
             /\ store'[d].certified = now \div DaySeconds
             /\ pending'[d] = -1
             /\ \A e \in StoreDomains \ {d} :
                    store'[e] = store[e] /\ blobs'[e] = blobs[e]]_vars

\* Both domains have been renewed, the second while the Config object had
\* last been pointed at the first.
C21_Witness ==
    /\ \A d \in StoreDomains : store[d].certified = now \div DaySeconds
    /\ \E j, k \in DOMAIN tasks :
          /\ tasks[j].domain = "a.com" /\ tasks[j].st = "done"
          /\ tasks[k].domain = "b.com" /\ tasks[k].st = "done"
          /\ blobs["a.com"] = j + 1 /\ blobs["b.com"] = k + 1

\* The issuance attempt k is under way: acme.auto is running and the race of
\* renewCert is undecided.
AttemptLive(k) ==
    /\ k \in DOMAIN tasks
    /\ tasks[k].st = "acme"
    /\ tasks[k].race = "open"

\* C22: a token is in the challenge store only while the issuance attempt
\* that created it is under way: once the attempt has completed, failed or
\* hit the 120 s timeout its token is not in the store, and a GET on the
\* challenge path for it answers 404.
C22_TokenOnlyDuringAttempt ==
    [][/\ \A k \in challenges' :
            /\ k \in DOMAIN tasks'
            /\ tasks'[k].st = "acme"
            /\ tasks'[k].race = "open"
       /\ \A r \in 1..MaxReq, k \in 1..MaxTasks :
            (/\ ChallengeArrives(r)
             /\ reqs'[r].url = ChallengeUrl(TokenOf(k))
             /\ ~AttemptLive(k))
            => reqs'[r].status = 404]_vars

\* Request r has just been relayed on the binary path.
BinaryRelayed(r) ==
    /\ reqs[r].st = "done"
    /\ reqs[r].kind = "relay"
    /\ IsBinaryRequest(reqs[r].url)

\* What the backend served, read from what it sent: the body on the wire
\* with its content coding undone.
Served(r) ==
    IF reqs[r].upHeaders["content-encoding"] = "gzip"
    THEN Gunzip(reqs[r].upBody) ELSE reqs[r].upBody

\* C23: the body the client receives for a request relayed on the binary
\* path is, byte for byte and in order, the body the backend served.
C23_BinaryBodyIdentical ==
    \A r \in 1..MaxReq : BinaryRelayed(r) => reqs[r].outBody = Served(r)

\* The renewals of domain d whose ACME exchange is running.
ExchangesInFlight(d) ==
    {k \in DOMAIN tasks : tasks[k].domain = d /\ tasks[k].st = "acme"}

\* C24: at every moment at most one ACME exchange per domain is running.
C24_OneExchangePerDomain ==
    \A d \in StoreDomains : Cardinality(ExchangesInFlight(d)) <= 1

\* A step in which getSiteKeys schedules a renewal: a task of the timer is new.
Schedules ==
    /\ Len(tasks') = Len(tasks) + 1
    /\ tasks'[Len(tasks')].origin = "timer"

\* C25: getSiteKeys schedules a renewal of a domain only if the domain has
\* no pending entry or one more than 60 s old, and the step that schedules
\* writes the pending entry with the time of the step, while the renewal has
\* not begun.
C25_ScheduleChecksAndWritesPending ==
    [][Schedules =>
          LET d == tasks'[Len(tasks')].domain
          IN /\ pending[d] = -1 \/ now > pending[d] + MAX_WAIT_TIME
             /\ pending'[d] = now
             /\ now' = now
             /\ tasks'[Len(tasks')].st = "scheduled"
             /\ \A k \in DOMAIN tasks : tasks'[k] = tasks[k]]_vars

\* A renewal of a.com was scheduled beside an earlier one whose entry was more
\* than 60 s old, and a later call found the new entry and scheduled nothing.
C25_Witness ==
    /\ \E j, k \in DOMAIN tasks :
          /\ j < k
          /\ tasks[j].domain = "a.com" /\ tasks[j].race = "open"
          /\ tasks[k].domain = "a.com" /\ tasks[k].origin = "timer"
          /\ tasks[k].st = "scheduled"
          /\ tasks[k].at > tasks[j].at + MAX_WAIT_TIME
          /\ pending["a.com"] = tasks[k].at
    /\ sni.host = "a.com"
    /\ Len(tasks) < MaxTasks

\* The last moment of the run.
Horizon == StartDay * DaySeconds + MaxTicks * TickLen

\* C26: a pending entry does not stay: whether the exchange succeeds, fails
\* or never answers, the entry of a domain is removed, and a renewal is never
\* left undecided beyond the step of the clock in which its 120 s end.
\* (Stated for the entries whose 120 s end within the run.)
C26_PendingEventuallyCleared ==
    /\ [](\A k \in DOMAIN tasks :
            tasks[k].race = "open" => now < tasks[k].at + RenewalTimeout + TickLen)
    /\ \A d \in CertDomains :
          (pending[d] # -1 /\ pending[d] + RenewalTimeout <= Horizon)
              ~> (pending[d] = -1)

\* The entry of a.com was removed by the 120 s timer of an exchange that had
\* not answered.
C26_Witness ==
    /\ pending["a.com"] = -1
    /\ \E k \in DOMAIN tasks :
          /\ tasks[k].domain = "a.com"
          /\ tasks[k].st = "acme" /\ tasks[k].race = "timeout"
          /\ now = tasks[k].at + RenewalTimeout

\* A step in which the certified date of the record of domain d is written.
BecomesCertified(d) ==
    /\ store'[d] # store[d]
    /\ store'[d].certified # -1

\* C27: the record of a domain becomes certified only in a step taken while
\* the domain holds a pending entry.
C27_CertifiedOnlyFromPending ==
    [][\A d \in StoreDomains : BecomesCertified(d) => pending[d] # -1]_vars

\* A step in which the 'close' handler of Site i runs after its process has
\* exited.
CloseHandled(i) ==
    /\ i \in DOMAIN insts
    /\ insts[i].os = "exited"
    /\ insts'[i].os = "closed"

\* C28: when the process of a Site has exited, the handler marks the Site
\* dead, cancels its health-check timer, removes the timer from the timer map
\* and removes the port of the Site from the used-port set.
C28_ExitReleasesTimerAndPort ==
    [][\A i \in InstIds :
          CloseHandled(i) =>
             /\ ~insts'[i].proc
             /\ i \notin intervals'
             /\ healthCheckIntervals'[insts[i].name] # i
             /\ insts[i].PORT \notin usedPorts']_vars

\* The process of Site i has exited or was never launched.
ProcessGone(i) == i \in DOMAIN insts /\ insts[i].os \in {"exited", "closed", "failed"}

\* C29: a registry entry whose process has exited or failed to launch does
\* not persist: it is eventually removed from the registry and its port
\* released.
C29_DeadEntryEventuallyRemoved ==
    \A d \in Domains, i \in InstIds :
        (sites[d] = i /\ ProcessGone(i))
            ~> (sites[d] # i /\ (i \in DOMAIN insts => insts[i].PORT \notin usedPorts))

\* The process of Site i is alive: launched, not exited, no signal sent.
Alive(i) ==
    /\ i \in DOMAIN insts
    /\ insts[i].os = "running"
    /\ insts[i].proc /\ ~insts[i].killed

\* Site i has a health-check timer, registered under its name.
HasHealthTimer(i) ==
    /\ i \in intervals
    /\ healthCheckIntervals[insts[i].name] = i

\* C30: a Site whose process stays alive gets a health-check timer registered
\* in healthCheckIntervals under its name once its startup timers have fired.
C30_AliveSiteGetsHealthTimer ==
    \A i \in InstIds : Alive(i) ~> (~Alive(i) \/ HasHealthTimer(i))

\* The outcomes of a probe that found no backend answering: the connection
\* was refused, the connect timed out, or the 5 s of the call ran out.
RefusedOrTimedOut == NetErrors \cup {AxiosTimeoutCode}

\* C31: a probe of Site i that ends with connection refused or timeout
\* cancels the timer of the Site, removes it from the timer map and sends
\* SIGTERM to a process that has not been signalled; a probe with any other
\* outcome sends no signal and leaves the timer and the map as they are.
C31_ProbeFailureStopsSite ==
    [][\A i \in InstIds :
          /\ (\E out \in RefusedOrTimedOut : ProbeResult(i, out))
                => /\ i \notin intervals'
                   /\ healthCheckIntervals'[insts[i].name] # i
                   /\ (insts[i].os = "running" /\ insts[i].proc /\ ~insts[i].killed)
                         => "SIGTERM" \in insts'[i].sigs
          /\ (\E out \in ProbeOutcomes \ RefusedOrTimedOut : ProbeResult(i, out))
                => /\ insts' = insts
                   /\ intervals' = intervals
                   /\ healthCheckIntervals' = healthCheckIntervals]_vars

\* Domain d has a Site in the registry whose process has not exited.
LiveSite(d) == sites[d] # 0 /\ insts[sites[d]].os = "running"

\* C32: restartSite(d) on a domain with a live Site cancels the old Site's
\* timer, sends SIGTERM to the old process, takes the old port out of
\* usedPorts and leaves the registry with the replacement, whose port differs
\* from the old one; the old process has not exited when it returns.
C32_RestartReplacesSite ==
    [][\A d \in Domains :
          (LiveSite(d) /\ RestartSite(d))
             => LET old == sites[d]
                    new == sites'[d]
                IN /\ old \notin intervals'
                   /\ healthCheckIntervals'[d] # old
                   /\ ~insts[old].killed => "SIGTERM" \in insts'[old].sigs
                   /\ insts'[old].os = "running"
                   /\ new # old /\ new # 0
                   /\ insts'[new].name = d
                   /\ insts[old].PORT \notin usedPorts'
                   /\ insts'[new].PORT # insts[old].PORT]_vars

\* C33: once the controller process has exited, by whatever path, every
\* child that is still running has been sent SIGKILL by the exit handler,
\* the children that had already been sent SIGTERM included.
C33_ExitKillsEveryChild ==
    ctl = "exited" =>
        \A i \in DOMAIN insts : insts[i].os = "running" => "SIGKILL" \in insts[i].sigs

\* The ports of the Sites currently in the registry.
RegistryPorts == {insts[i].PORT : i \in Registered}

\* C34: usedPorts is exactly the set of ports of the Sites in the registry.
C34_UsedPortsAreRegistryPorts == usedPorts = RegistryPorts

\* SITE_ENV is absent, or is not valid JSON: JSON.parse throws in both cases.
SiteEnvUnparsable == siteEnv \in {"unset", "invalid"}

\* C35: with SITE_ENV absent or not valid JSON, every spawn (at startup, by
\* the router, by restartSite) creates its Site and calls child_process.spawn
\* with the PORT the allocator handed out for it, no override applied.
C35_UnparsableSiteEnvIgnored ==
    [][SiteEnvUnparsable =>
          \A i \in DOMAIN insts' \ DOMAIN insts :
              /\ insts'[i].PORT = _spawnPort + (i - Len(insts) - 1)
              /\ insts'[i].PORT \in usedPorts'
              /\ insts'[i].proc
              /\ insts'[i].os \in {"running", "failed"}
              /\ sites'[insts'[i].name] = i]_vars

C35_Witness ==
    /\ siteEnv = "invalid"
    /\ Len(insts) = 2
    /\ insts[1].name = "a.com" /\ insts[1].PORT = DefaultSpawnPort
    /\ insts[2].os = "running" /\ insts[2].PORT = DefaultSpawnPort + 1

\* C36: two failures of the pair that are both logged are more than 60 s
\* apart: a call that returns true comes more than LogMinGap after the call
\* that returned true before it.
C36_LoggedAtMostOncePerMinute ==
    (logged /\ prevLogAt >= 0) => logNow - prevLogAt > LogMinGap

\* C37: the first failure of a window is logged and leaves count 1 in the
\* entry; a later failure of the window is logged only when its number in
\* the window is a multiple of ten; the entry counts the failures of the
\* window and remembers when it started.
C37_LoggedOnFirstAndTenths ==
    [][logCalls' = logCalls + 1 =>
          \A k \in LogKeys :
              /\ errorLogTracker'[k].count = windowCount'
              /\ errorLogTracker'[k].firstSeen = windowStart'
              /\ windowCount' = 1 => logged'
              /\ (windowCount' > 1 /\ logged') => windowCount' % LogEvery = 0]_vars

\* A failure arriving more than 5 minutes after the first of a window of ten
\* or more failures has opened a new window and was logged.
C37_Witness ==
    /\ logCalls > LogEvery
    /\ windowCount = 1
    /\ windowStart = logNow
    /\ windowStart > LogWindow
    /\ logged
    /\ prevLogAt > 0

\* A step in which doRenewCert of task k ends after the 120 s timer has
\* rejected the race of the task.
EndsAfterTimeout(k) ==
    /\ k \in DOMAIN tasks
    /\ tasks[k].race = "timeout"
    /\ tasks[k].st \in {"csr", "acme"}
    /\ tasks'[k].st \in {"done", "failed"}

\* C38: the end of an exchange whose renewal has timed out writes neither
\* the record nor the blobs of the domain and deletes no pending entry.
C38_TimedOutRenewalHasNoEffect ==
    [][\A k \in 1..MaxTasks :
          EndsAfterTimeout(k)
             => /\ store' = store
                /\ blobs' = blobs
                /\ pending' = pending]_vars

\* A step in which renewCert of task k runs up to its first await.
RenewCertBegins(k) ==
    /\ k \in DOMAIN tasks
    /\ tasks[k].st = "scheduled"
    /\ tasks'[k].st # "scheduled"

\* C39: every operation reads and writes the document and the directory of
\* its own domain, whatever the other domains do between its steps:
\* getSiteKeys(h) answers from the record and the blobs of h, renewCert of a
\* task tests the record of the task's domain, and the record or the blobs
\* of a domain change only when an exchange of that domain succeeds.
C39_OperationsHitOwnDomain ==
    [][/\ \A h \in StoreDomains :
             (Resolves(h) /\ sni'.res # "pending")
                => /\ configPath' = h
                   /\ sni'.res = "ctx"
                         => store[h].key /\ store[h].cert /\ sni'.blob = blobs[h]
                   /\ sni'.res = "null" => ~(store[h].key /\ store[h].cert)
       /\ \A k \in 1..MaxTasks :
             RenewCertBegins(k)
                => /\ configPath' = tasks[k].domain
                   /\ tasks'[k].st = "noop" <=> IsFresh(store[tasks[k].domain])
       /\ \A e \in StoreDomains :
             (store'[e] # store[e] \/ blobs'[e] # blobs[e])
                => \E k \in DOMAIN tasks :
                      /\ tasks[k].domain = e
                      /\ tasks[k].st = "acme" /\ tasks'[k].st = "done"
                      /\ configPath' = e]_vars

\* The one renewal of a.com has ended after getSiteKeys("b.com"), called
\* while the renewal was under way, had pointed the Config object at b.com.
C39_Witness ==
    /\ sni = [host |-> "b.com", res |-> "ctx", blob |-> 1]
    /\ configPath = "a.com"
    /\ blobs["b.com"] = 1
    /\ \E k, j \in DOMAIN tasks :
          /\ tasks[k].domain = "a.com" /\ tasks[k].st = "done"
          /\ blobs["a.com"] = k + 1
          /\ \A i \in DOMAIN tasks : tasks[i].domain = "a.com" => i = k
          /\ tasks[j].domain = "b.com" /\ tasks[j].st = "scheduled"
          /\ tasks[j].at > tasks[k].at

\* The Site objects constructed for domain d.
SitesOf(d) == {i \in DOMAIN insts : insts[i].name = d}

\* The domains with a request in the handler: proxied, or waiting for the
\* redirect that follows a spawn.
InHandler(d) ==
    \E r \in DOMAIN reqs :
        /\ reqs[r].st \in {"upstream", "redirectWait"}
        /\ WashName(reqs[r].host) = d

====
